---- MODULE Spec2Model ----
(***************************************************************************)
(* A model of vis.models.indexed_piece.IndexedPiece: the per-piece         *)
(* derivation cache (_analyses), the analyzer table (_mkd), get_data and   *)
(* its caching helpers, and the metadata accessor.                         *)
(*                                                                         *)
(* Python values are encoded as functions from strings to strings, so that *)
(* any two of them can be compared: None is [none |-> "None"], a settings  *)
(* dict maps its keys to "True" / "False" / a string value, a table        *)
(* supplied by the caller is [table |-> "external"].                       *)
(***************************************************************************)
EXTENDS Integers, Sequences, FiniteSets, TLC

VARIABLES
    score,      \* IndexedPiece._score: "none" (None), "empty" (no note/rest/chord) or "notes"
    imported,   \* IndexedPiece._imported
    analyses,   \* IndexedPiece._analyses: cache key -> cached object
    metadata,   \* IndexedPiece._metadata: field -> value
    runs,       \* call-count probe: stage or indexer name -> number of runs so far
    call,       \* the most recent public call on the piece and its outcome; again says
                \* that it repeats the request of the call before it
    ncalls,     \* number of public calls made so far
    wm,         \* a WorkflowManager: its _data, _settings and _result
    wcall,      \* the most recent call on the manager, its outcome, and which calls have completed
    probe       \* one application of a per-event transform or table operation: input and output

vars == <<score, imported, analyses, metadata, runs, call, ncalls, wm, wcall, probe>>

\* Number of public calls (get_data, metadata) explored on one piece.
MaxCalls == 2

-----------------------------------------------------------------------------
\* Python values

None == [none |-> "None"]

\* A table (DataFrame / list of Series) handed in by the caller as ``data``.
ExtTable == [table |-> "external"]

\* The module-level default: the maximally detailed interval settings.
_default_interval_setts ==
    [quality |-> "True", directed |-> "True",
     simple_or_compound |-> "compound", horiz_attach_later |-> "True"]

\* The settings _get_dissonance asks its interval stages for.
h_setts ==
    [quality |-> "False", simple_or_compound |-> "compound", horiz_attach_later |-> "False"]

v_setts ==
    [quality |-> "True", simple_or_compound |-> "simple", directed |-> "True"]

\* Python truthiness of an encoded value.
Truthy(x) == x \notin {"False", "None", ""}

-----------------------------------------------------------------------------
\* The analyzer table

\* One row per entry of IndexedPiece._mkd: the short name, the long name (the
\* class is named by the same string, with type "type"), and what the row maps
\* to: a caching method of the piece, or the analyzer class itself ("class").
_mkd ==
    { [short |-> "annotation",          long |-> "lilypond.AnnotationIndexer",          handler |-> "class"],
      [short |-> "active_voices",       long |-> "active_voices.ActiveVoicesIndexer",   handler |-> "_get_active_voices"],
      [short |-> "cadence",             long |-> "cadence.CadenceIndexer",              handler |-> "class"],
      [short |-> "contour",             long |-> "contour.ContourIndexer",              handler |-> "class"],
      [short |-> "dissonance",          long |-> "dissonance.DissonanceIndexer",        handler |-> "_get_dissonance"],
      [short |-> "fermata",             long |-> "fermata.FermataIndexer",              handler |-> "_get_fermata"],
      [short |-> "horizontal_interval", long |-> "interval.HorizontalIntervalIndexer",  handler |-> "_get_horizontal_interval"],
      [short |-> "vertical_interval",   long |-> "interval.IntervalIndexer",            handler |-> "_get_vertical_interval"],
      [short |-> "duration",            long |-> "meter.DurationIndexer",               handler |-> "_get_duration"],
      [short |-> "measure",             long |-> "meter.MeasureIndexer",                handler |-> "_get_measure"],
      [short |-> "beat_strength",       long |-> "meter.NoteBeatStrengthIndexer",       handler |-> "_get_beat_strength"],
      [short |-> "ngram",               long |-> "ngram.NGramIndexer",                  handler |-> "_get_ngram"],
      [short |-> "multistop",           long |-> "noterest.MultiStopIndexer",           handler |-> "_get_multistop"],
      [short |-> "noterest",            long |-> "noterest.NoteRestIndexer",            handler |-> "_get_noterest"],
      [short |-> "offset",              long |-> "offset.FilterByOffsetIndexer",        handler |-> "class"],
      [short |-> "over_bass",           long |-> "over_bass.OverBassIndexer",           handler |-> "class"],
      [short |-> "repeat",              long |-> "repeat.FilterByRepeatIndexer",        handler |-> "class"],
      [short |-> "windexer",            long |-> "windexer.Windexer",                   handler |-> "class"],
      [short |-> "aggregator",          long |-> "aggregator.ColumnAggregator",         handler |-> "class"],
      [short |-> "bar_chart",           long |-> "barchart.RBarChart",                  handler |-> "class"],
      [short |-> "frequency",           long |-> "frequency.FrequencyExperimenter",     handler |-> "class"],
      [short |-> "annotate_the_note",   long |-> "lilypond.AnnotateTheNoteExperimenter", handler |-> "class"],
      [short |-> "lilypond",            long |-> "lilypond.LilyPondExperimenter",       handler |-> "class"],
      [short |-> "part_notes",          long |-> "lilypond.PartNotesExperimenter",      handler |-> "class"] }

\* An analyzer identifier as get_data receives it: its Python type and its
\* name(s).  A str or a class carries one name, a list carries its items.
StrId(s) == [type |-> "str", v |-> <<s>>]

ClsId(s) == [type |-> "type", v |-> <<s>>]

ListId(items) == [type |-> "list", v |-> items]

NoId == [type |-> "", v |-> <<>>]

\* The rows an identifier is a key of (multi_key_dict looks a key up among the
\* keys of the key's own type, so a list, of which there are no keys, matches none).
Rows(id) ==
    { row \in _mkd :
        /\ Len(id.v) = 1
        /\ \/ id.type = "str" /\ id.v[1] \in {row.short, row.long}
           \/ id.type = "type" /\ id.v[1] = row.long }

\* ``analyzer_cls in self._mkd``
InMkd(id) == Rows(id) # {}

\* ``self._mkd[analyzer_cls]``
Handler(id) == (CHOOSE row \in Rows(id) : TRUE).handler

\* ``self._mkd.keys(str)``: every string key of the table.
StrKeys == {row.short : row \in _mkd} \cup {row.long : row \in _mkd}

-----------------------------------------------------------------------------
\* Objects: the tables the stages and indexers produce.  (ind, n) is the
\* object's identity (the n-th run of ind); src says whether its content comes
\* from the piece's own score or from data supplied by the caller; inp are the
\* identities of its inputs; setts the settings it was computed with; attach
\* the offset a horizontal interval is indexed at.

NoObj == [ind |-> "", n |-> 0, src |-> "", inp |-> <<>>, setts |-> None, attach |-> ""]

Id(o) == <<o.ind, o.n>>

ScoreId == <<"score", 0>>

DataId(d) == <<"data", 0>>

\* What two equal tables share: everything but the identity.
Content(o) == [ind |-> o.ind, src |-> o.src, setts |-> o.setts, attach |-> o.attach,
               inp |-> [i \in DOMAIN o.inp |-> o.inp[i][1]]]

-----------------------------------------------------------------------------
\* Running stages and indexers
\*
\* A helper works on a context c = [an, rn, ran, ext]: the cache, the run
\* counts, the runs made during the current call, and ext, the outcome of an
\* indexer whose code is outside this module when it is handed an argument
\* of the wrong Python type.  It returns [c, v, err]: the context after it,
\* the value returned and "ok" or the exception raised.

\* A dict given as ``data`` (the same keys and values as v_setts).
ExtDict == v_setts

\* What an indexer may do with an argument of the wrong type.
ExtOutcomes == {"ok", "TypeError", "RuntimeError"}

Ret(c, v) == [c |-> c, v |-> v, err |-> "ok"]

Raise(c, e) == [c |-> c, v |-> NoObj, err |-> e]

\* One run of a stage or indexer: a new object, counted by the probe.
Run(c, ind, src, inp, setts, attach) ==
    Ret([c EXCEPT !.rn[ind] = @ + 1, !.ran = Append(@, ind)],
        [ind |-> ind, n |-> c.rn[ind] + 1, src |-> src, inp |-> inp,
         setts |-> setts, attach |-> attach])

\* ``self._analyses[key] = o``
Store(c, key, o) ==
    [c EXCEPT !.an = [k \in DOMAIN c.an \cup {key} |-> IF k = key THEN o ELSE c.an[k]]]

\* An indexer constructed on caller-supplied ``data`` and settings and run.
RunOnData(c, ind, data, setts) ==
    IF (data # ExtTable \/ setts = ExtTable) /\ c.ext # "ok"
    THEN Raise(c, c.ext)
    ELSE Run(c, ind, "data", <<DataId(data)>>, setts, "")

\* interval.IntervalReindexer(table, settings).run(): a relabelling of the
\* cells of table, which keeps the offsets they are indexed at.
IntervalReindexer(c, table, setts) ==
    IF setts = ExtTable /\ c.ext # "ok"
    THEN Raise(c, c.ext)
    ELSE Run(c, "IntervalReindexer", table.src, <<Id(table)>>, setts, table.attach)

\* ``self._analyses[key] = <the run r>; return self._analyses[key]``
Cache(r, key) == Ret(Store(r.c, key, r.v), r.v)

\* The rest of a method after a call it makes: the exception the call raised
\* propagates, otherwise F continues from the call's result.
Then(p, F(_)) == IF p.err # "ok" THEN p ELSE F(p)

_get_part_streams(c) ==
    IF "part_streams" \in DOMAIN c.an THEN Ret(c, c.an["part_streams"])
    ELSE IF score = "none" THEN Raise(c, "AttributeError")
    ELSE Cache(Run(c, "part_streams", "score", <<ScoreId>>, None, ""), "part_streams")

_get_m21_objs(c) ==
    IF "m21_objs" \in DOMAIN c.an THEN Ret(c, c.an["m21_objs"])
    ELSE Then(_get_part_streams(c), LAMBDA p :
            Cache(Run(p.c, "m21_objs", p.v.src, <<Id(p.v)>>, None, ""), "m21_objs"))

_get_m21_nrc_objs(c) ==
    IF "m21_nrc_objs" \in DOMAIN c.an THEN Ret(c, c.an["m21_nrc_objs"])
    ELSE Then(_get_m21_objs(c), LAMBDA p :
            Cache(Run(p.c, "m21_nrc_objs", p.v.src, <<Id(p.v)>>, None, ""), "m21_nrc_objs"))

_get_m21_nrc_objs_no_tied(c) ==
    IF "m21_nrc_objs_no_tied" \in DOMAIN c.an THEN Ret(c, c.an["m21_nrc_objs_no_tied"])
    ELSE Then(_get_m21_nrc_objs(c), LAMBDA p :
            IF score = "empty"
            THEN Cache(p, "m21_nrc_objs_no_tied")
            ELSE Cache(Run(p.c, "m21_nrc_objs_no_tied", p.v.src, <<Id(p.v)>>, None, ""),
                       "m21_nrc_objs_no_tied"))

\* _get_noterest without its test of the cache.
_get_noterest_Uncached(c) ==
    Then(_get_m21_nrc_objs_no_tied(c), LAMBDA p :
       Cache(Run(p.c, "NoteRestIndexer", p.v.src, <<Id(p.v)>>, None, ""), "noterest"))

_get_noterest(c) ==
    IF "noterest" \in DOMAIN c.an THEN Ret(c, c.an["noterest"])
    ELSE Then(_get_m21_nrc_objs_no_tied(c), LAMBDA p :
            Cache(Run(p.c, "NoteRestIndexer", p.v.src, <<Id(p.v)>>, None, ""), "noterest"))

_get_multistop(c) ==
    IF "multistop" \in DOMAIN c.an THEN Ret(c, c.an["multistop"])
    ELSE Then(_get_m21_nrc_objs_no_tied(c), LAMBDA p :
            Cache(Run(p.c, "MultiStopIndexer", p.v.src, <<Id(p.v)>>, None, ""), "multistop"))

\* meter.DurationIndexer(data, part_streams).run() on supplied data: run() reads
\* the table's columns, which a dict does not have.
DurationIndexerOnData(c, data, part_streams) ==
    IF data # ExtTable
    THEN Raise(c, IF c.ext = "ok" THEN "AttributeError" ELSE c.ext)
    ELSE Run(c, "DurationIndexer", "data", <<DataId(data), Id(part_streams)>>, None, "")

\* _get_duration keeping what it computed from supplied data.
_get_duration_CachesData(c, data) ==
    IF data # None
    THEN Then(_get_part_streams(c), LAMBDA p :
            Then(DurationIndexerOnData(p.c, data, p.v), LAMBDA d : Cache(d, "duration")))
    ELSE IF "duration" \in DOMAIN c.an THEN Ret(c, c.an["duration"])
    ELSE Then(_get_m21_nrc_objs_no_tied(c), LAMBDA p :
            Then(_get_part_streams(p.c), LAMBDA q :
               Cache(Run(q.c, "DurationIndexer", p.v.src, <<Id(p.v), Id(q.v)>>, None, ""),
                     "duration")))

_get_duration(c, data) ==
    IF data # None
    THEN Then(_get_part_streams(c), LAMBDA p : DurationIndexerOnData(p.c, data, p.v))
    ELSE IF "duration" \in DOMAIN c.an THEN Ret(c, c.an["duration"])
    ELSE Then(_get_m21_nrc_objs_no_tied(c), LAMBDA p :
            Then(_get_part_streams(p.c), LAMBDA q :
               Cache(Run(q.c, "DurationIndexer", p.v.src, <<Id(p.v), Id(q.v)>>, None, ""),
                     "duration")))

\* active_voices.ActiveVoicesIndexer.default_settings
ActiveVoicesDefault == [attacked |-> "False", show_all |-> "False"]

\* The settings an ActiveVoicesIndexer works with: its defaults when given none.
ActiveVoicesSetts(settings) == IF settings = None THEN ActiveVoicesDefault ELSE settings

_get_active_voices(c, data, settings) ==
    IF data # None
    THEN RunOnData(c, "ActiveVoicesIndexer", data, ActiveVoicesSetts(settings))
    ELSE IF "active_voices" \notin DOMAIN c.an
            /\ (settings = None \/ settings = ActiveVoicesDefault)
    THEN Then(_get_noterest(c), LAMBDA p :
            Cache(Run(p.c, "ActiveVoicesIndexer", p.v.src, <<Id(p.v)>>,
                      ActiveVoicesSetts(None), ""), "active_voices"))
    ELSE Then(_get_noterest(c), LAMBDA p :
            Run(p.c, "ActiveVoicesIndexer", p.v.src, <<Id(p.v)>>,
                ActiveVoicesSetts(settings), ""))

_get_beat_strength(c) ==
    IF "beat_strength" \in DOMAIN c.an THEN Ret(c, c.an["beat_strength"])
    ELSE Then(_get_m21_nrc_objs_no_tied(c), LAMBDA p :
            Cache(Run(p.c, "NoteBeatStrengthIndexer", p.v.src, <<Id(p.v)>>, None, ""),
                  "beat_strength"))

_get_fermata(c) ==
    IF "fermata" \in DOMAIN c.an THEN Ret(c, c.an["fermata"])
    ELSE Then(_get_m21_nrc_objs_no_tied(c), LAMBDA p :
            Cache(Run(p.c, "FermataIndexer", p.v.src, <<Id(p.v)>>, None, ""), "fermata"))

\* The test both interval helpers make of the settings: directed, with quality
\* and compound, that is, what the cached table already is.
MaxDetail(settings) ==
    /\ "directed" \in DOMAIN settings /\ settings["directed"] = "True"
    /\ "quality" \in DOMAIN settings
    /\ settings["quality"] \in {"True", "diatonic with quality"}
    /\ "simple_or_compound" \in DOMAIN settings
    /\ settings["simple_or_compound"] = "compound"

\* The detailed vertical table computed afresh, with the settings asked for, at every request.
VerticalBase_Recompute(c) ==
    Then(_get_noterest(c), LAMBDA p :
       Cache(Run(p.c, "IntervalIndexer", p.v.src, <<Id(p.v)>>, v_setts, ""),
             "vertical_interval"))

\* The first statement of _get_vertical_interval: compute and cache the detailed table.
VerticalBase(c) ==
    IF "vertical_interval" \in DOMAIN c.an THEN Ret(c, c.an["vertical_interval"])
    ELSE Then(_get_noterest(c), LAMBDA p :
            Cache(Run(p.c, "IntervalIndexer", p.v.src, <<Id(p.v)>>,
                      _default_interval_setts, ""), "vertical_interval"))

_get_vertical_interval(c, settings) ==
    Then(VerticalBase(c), LAMBDA b :
       IF settings # None /\ ~MaxDetail(settings)
       THEN IntervalReindexer(b.c, b.c.an["vertical_interval"], settings)
       ELSE Ret(b.c, b.c.an["vertical_interval"]))

\* _attach_before(df): a new table whose intervals are indexed at the first
\* note of each pair.
_attach_before(c, df) ==
    Run(c, "_attach_before", df.src, <<Id(df)>>, df.setts, "before")

\* The first statement of _get_horizontal_interval; the indexer is given
\* horiz_attach_later True, so its intervals are indexed at the second note.
HorizontalBase(c) ==
    IF "horizontal_interval" \in DOMAIN c.an THEN Ret(c, c.an["horizontal_interval"])
    ELSE Then(_get_noterest(c), LAMBDA p :
            Cache(Run(p.c, "HorizontalIntervalIndexer", p.v.src, <<Id(p.v)>>,
                      _default_interval_setts,
                      IF Truthy(_default_interval_setts["horiz_attach_later"])
                      THEN "later" ELSE "before"), "horizontal_interval"))

_get_horizontal_interval(c, settings) ==
    Then(HorizontalBase(c), LAMBDA b :
       IF settings # None /\ ~MaxDetail(settings)
       THEN Then(IntervalReindexer(b.c, b.c.an["horizontal_interval"], settings),
                 LAMBDA post :
                    IF "horiz_attach_later" \notin DOMAIN settings
                       \/ ~Truthy(settings["horiz_attach_later"])
                    THEN _attach_before(post.c, post.v)
                    ELSE post)
       ELSE Ret(b.c, b.c.an["horizontal_interval"]))

\* _get_dissonance without its cache: the classifier is run at every request.
_get_dissonance_Uncached(c) ==
    Then(_get_beat_strength(c), LAMBDA bs :
     Then(_get_duration(bs.c, None), LAMBDA du :
      Then(_get_horizontal_interval(du.c, h_setts), LAMBDA ho :
       Then(_get_vertical_interval(ho.c, v_setts), LAMBDA ve :
          Run(ve.c, "DissonanceIndexer", "score",
              <<Id(bs.v), Id(du.v), Id(ho.v), Id(ve.v)>>, None, "")))))

_get_dissonance(c) ==
    IF "dissonance" \in DOMAIN c.an THEN Ret(c, c.an["dissonance"])
    ELSE Then(_get_beat_strength(c), LAMBDA bs :
          Then(_get_duration(bs.c, None), LAMBDA du :
           Then(_get_horizontal_interval(du.c, h_setts), LAMBDA ho :
            Then(_get_vertical_interval(ho.c, v_setts), LAMBDA ve :
               Cache(Run(ve.c, "DissonanceIndexer", "score",
                         <<Id(bs.v), Id(du.v), Id(ho.v), Id(ve.v)>>, None, ""),
                     "dissonance")))))

_get_m21_measure_objs(c) ==
    IF "m21_measure_objs" \in DOMAIN c.an THEN Ret(c, c.an["m21_measure_objs"])
    ELSE Then(_get_m21_objs(c), LAMBDA p :
            Cache(Run(p.c, "m21_measure_objs", p.v.src, <<Id(p.v)>>, None, ""),
                  "m21_measure_objs"))

_get_measure(c) ==
    IF "measure" \in DOMAIN c.an THEN Ret(c, c.an["measure"])
    ELSE Then(_get_m21_measure_objs(c), LAMBDA p :
            Cache(Run(p.c, "MeasureIndexer", p.v.src, <<Id(p.v)>>, None, ""), "measure"))

_get_ngram(c, data, settings) == RunOnData(c, "NGramIndexer", data, settings)

-----------------------------------------------------------------------------
\* get_data

\* The parameters (after self) of what a row of the table maps to, in order,
\* each with whether it has no default.
Params(handler) ==
    CASE handler = "_get_duration" ->
             << [name |-> "data", req |-> FALSE] >>
      [] handler = "_get_active_voices" ->
             << [name |-> "data", req |-> FALSE], [name |-> "settings", req |-> FALSE] >>
      [] handler \in {"_get_vertical_interval", "_get_horizontal_interval"} ->
             << [name |-> "settings", req |-> FALSE] >>
      [] handler = "_get_ngram" ->
             << [name |-> "data", req |-> TRUE], [name |-> "settings", req |-> FALSE] >>
      [] handler = "class" ->
             << [name |-> "score", req |-> TRUE], [name |-> "settings", req |-> FALSE] >>
      [] OTHER -> << >>

\* Python's binding of the call get_data makes: ``data``, when not None, is the
\* one positional argument and ``settings``, when not None, a keyword argument.
\* ok is FALSE where Python raises TypeError: too many positional arguments, an
\* unexpected keyword, two values for one parameter, a required one missing.
\* first is the value bound to the first parameter, settings the value bound to
\* the parameter named settings.
Bind(params, data, settings) ==
    LET npos == IF data = None THEN 0 ELSE 1
        names == {params[i].name : i \in 1..Len(params)}
        positional == {params[i].name : i \in 1..npos \cap 1..Len(params)}
        missing == {params[i].name : i \in {j \in (npos + 1)..Len(params) : params[j].req}}
    IN  [ok |-> /\ npos <= Len(params)
                /\ settings # None => "settings" \in names \ positional
                /\ missing \subseteq (IF settings # None THEN {"settings"} ELSE {}),
         first |-> IF npos = 1 /\ Len(params) >= 1 /\ params[1].name # "settings"
                   THEN data ELSE None,
         settings |-> IF "settings" \in positional THEN data ELSE settings]

NoMsg == [received |-> NoId, valid |-> {}]

\* A lookup failure that empties the cache and names no identifier.
NotAnAnalyzer_Forgetful(c, analyzer_cls) ==
    [c |-> [c EXCEPT !.an = [k \in {} |-> NoObj]], v |-> NoObj, err |-> "KeyError",
     msg |-> NoMsg]

\* ``raise KeyError(IndexedPiece._NOT_AN_ANALYZER.format(analyzer_cls, sorted(self._mkd.keys(str))))``
NotAnAnalyzer(c, analyzer_cls) ==
    [c |-> c, v |-> NoObj, err |-> "KeyError",
     msg |-> [received |-> analyzer_cls, valid |-> StrKeys]]

\* The body of get_data: the result [c, v, err, msg] of one call made in context c.
get_data(c, analyzer_cls, data, settings) ==
    IF ~InMkd(analyzer_cls)
    THEN NotAnAnalyzer(c, analyzer_cls)
    ELSE LET row == CHOOSE r \in Rows(analyzer_cls) : TRUE
             h == row.handler
             b == Bind(Params(h), data, settings)
             r == CASE h = "_get_noterest" -> _get_noterest(c)
                    [] h = "_get_multistop" -> _get_multistop(c)
                    [] h = "_get_duration" -> _get_duration(c, b.first)
                    [] h = "_get_active_voices" -> _get_active_voices(c, b.first, b.settings)
                    [] h = "_get_beat_strength" -> _get_beat_strength(c)
                    [] h = "_get_fermata" -> _get_fermata(c)
                    [] h = "_get_vertical_interval" -> _get_vertical_interval(c, b.settings)
                    [] h = "_get_horizontal_interval" -> _get_horizontal_interval(c, b.settings)
                    [] h = "_get_dissonance" -> _get_dissonance(c)
                    [] h = "_get_measure" -> _get_measure(c)
                    [] h = "_get_ngram" -> _get_ngram(c, b.first, b.settings)
                    [] OTHER -> RunOnData(c, row.long, b.first, b.settings)
         IN  IF ~b.ok
             THEN [c |-> c, v |-> NoObj, err |-> "RuntimeWarning", msg |-> NoMsg]
             ELSE IF r.err = "TypeError"
             THEN [c |-> r.c, v |-> NoObj, err |-> "RuntimeWarning", msg |-> NoMsg]
             ELSE [c |-> r.c, v |-> r.v, err |-> r.err, msg |-> NoMsg]

-----------------------------------------------------------------------------
\* metadata

\* Python None where a metadata value is expected.
PyNone == "None"

\* The fields the documentation of the piece's metadata promises.
Whitelist ==
    {"pathname", "title", "composer", "composers", "date", "parts", "partRanges",
     "pieceRange", "opusNumber", "movementName", "movementNumber", "number", "anacrusis",
     "alternativeTitle", "localeOfComposition"}

\* A field name as metadata() receives it: its Python type and its text.
StrField(s) == [type |-> "str", v |-> s]

NoField == [type |-> "", v |-> ""]

\* The fields init_metadata creates.
field_list ==
    {"opusNumber", "movementName", "composer", "number", "anacrusis", "movementNumber",
     "date", "composers", "alternativeTitle", "title", "localeOfComposition", "parts"}

Pathname == "piece.xml"

init_metadata ==
    [f \in field_list \cup {"pathname"} |-> IF f = "pathname" THEN Pathname ELSE ""]

\* The fields ImportScore assigns after construction, with the values it finds.
ImportedFields ==
    [parts |-> "<part names>", title |-> "<title>",
     partRanges |-> "<part ranges>", pieceRange |-> "<piece range>"]

\* metadata() creating the field it is asked to set when the piece has none of that name.
metadata_call_Creates(md, field, value) ==
    IF field.type # "str" THEN [md |-> md, ret |-> PyNone, err |-> "TypeError"]
    ELSE IF value = PyNone /\ field.v \notin DOMAIN md
    THEN [md |-> md, ret |-> PyNone, err |-> "AttributeError"]
    ELSE IF value = PyNone THEN [md |-> md, ret |-> md[field.v], err |-> "ok"]
    ELSE [md |-> [f \in DOMAIN md \cup {field.v} |-> IF f = field.v THEN value ELSE md[f]],
          ret |-> PyNone, err |-> "ok"]

\* The body of metadata(): [md, ret, err], the fields after the call, the value
\* returned and "ok" or the exception raised.
metadata_call(md, field, value) ==
    IF field.type # "str" THEN [md |-> md, ret |-> PyNone, err |-> "TypeError"]
    ELSE IF field.v \notin DOMAIN md THEN [md |-> md, ret |-> PyNone, err |-> "AttributeError"]
    ELSE IF value = PyNone THEN [md |-> md, ret |-> md[field.v], err |-> "ok"]
    ELSE [md |-> [md EXCEPT ![field.v] = value], ret |-> PyNone, err |-> "ok"]

-----------------------------------------------------------------------------
\* The state machine

\* No manager, no call on one, nothing probed: the values of wm, wcall and probe
\* where a single piece is used on its own.
NoManager == [data |-> << >>, settings |-> << >>, result |-> None]

NoWCall == [op |-> "none"]

NoProbe == [op |-> "none"]

PieceAlone == wm = NoManager /\ wcall = NoWCall /\ probe = NoProbe

Stages ==
    {"part_streams", "m21_objs", "m21_nrc_objs", "m21_nrc_objs_no_tied", "m21_measure_objs",
     "NoteRestIndexer", "MultiStopIndexer", "DurationIndexer", "ActiveVoicesIndexer",
     "NoteBeatStrengthIndexer", "FermataIndexer", "IntervalIndexer",
     "HorizontalIntervalIndexer", "IntervalReindexer", "_attach_before",
     "DissonanceIndexer", "MeasureIndexer", "NGramIndexer"}
    \cup {row.long : row \in {r \in _mkd : r.handler = "class"}}

NoCall ==
    [op |-> "init", id |-> NoId, data |-> None, settings |-> None,
     field |-> NoField, value |-> PyNone, err |-> "ok", res |-> NoObj,
     ret |-> PyNone, ran |-> << >>, msg |-> NoMsg, again |-> FALSE]

\* IndexedPiece(pathname, score=...), with no metafile.
Init ==
    /\ score \in {"none", "empty", "notes"}
    /\ imported = FALSE
    /\ analyses = [k \in {} |-> NoObj]
    /\ metadata = init_metadata
    /\ runs = [s \in Stages |-> 0]
    /\ call = NoCall
    /\ PieceAlone
    /\ ncalls = 0

\* What ImportScore does to the piece it has just constructed from a file that
\* imports as a Score.  Its loop over the fields copies nothing: it asks the
\* bound method ip.metadata for attributes named like the fields.
ImportScore ==
    /\ ncalls = 0 /\ ~imported /\ score # "none"
    /\ metadata' = [f \in DOMAIN metadata \cup DOMAIN ImportedFields |->
                       IF f \in DOMAIN ImportedFields THEN ImportedFields[f] ELSE metadata[f]]
    /\ imported' = TRUE
    /\ call' = [NoCall EXCEPT !.op = "ImportScore"]
    /\ UNCHANGED <<score, analyses, runs, ncalls, wm, wcall, probe>>

GetData(analyzer_cls, data, settings, ext) ==
    /\ ncalls < MaxCalls
    /\ LET r == get_data([an |-> analyses, rn |-> runs, ran |-> << >>, ext |-> ext],
                         analyzer_cls, data, settings)
       IN  /\ analyses' = r.c.an
           /\ runs' = r.c.rn
           /\ call' = [NoCall EXCEPT !.op = "get_data", !.id = analyzer_cls, !.data = data,
                                     !.settings = settings, !.err = r.err, !.res = r.v,
                                     !.ran = r.c.ran, !.msg = r.msg,
                                     !.again = /\ call.op = "get_data"
                                               /\ call.id = analyzer_cls
                                               /\ call.data = data
                                               /\ call.settings = settings]
    /\ ncalls' = ncalls + 1
    /\ UNCHANGED <<score, imported, metadata, wm, wcall, probe>>

Metadata(field, value) ==
    /\ ncalls < MaxCalls
    /\ LET r == metadata_call(metadata, field, value)
       IN  /\ metadata' = r.md
           /\ call' = [NoCall EXCEPT !.op = "metadata", !.field = field, !.value = value,
                                     !.err = r.err, !.ret = r.ret]
    /\ ncalls' = ncalls + 1
    /\ UNCHANGED <<score, imported, analyses, runs, wm, wcall, probe>>

-----------------------------------------------------------------------------
\* The calls explored

\* Maximally detailed, asking for attach-before.
DetailBefore ==
    [quality |-> "True", directed |-> "True",
     simple_or_compound |-> "compound", horiz_attach_later |-> "False"]

\* Maximally detailed, horiz_attach_later omitted.
DetailOmitted ==
    [quality |-> "diatonic with quality", directed |-> "True", simple_or_compound |-> "compound"]

\* Reduced, asking for attach-later.
SimpleLater ==
    [quality |-> "False", directed |-> "False",
     simple_or_compound |-> "simple", horiz_attach_later |-> "True"]

\* Settings for the ActiveVoicesIndexer other than its defaults.
ActiveVoicesOther == [attacked |-> "True", show_all |-> "False"]

IntervalSetts ==
    {None, _default_interval_setts, DetailBefore, DetailOmitted, SimpleLater, h_setts, v_setts}

IntervalIds == {StrId("vertical_interval"), StrId("horizontal_interval")}

PlainIds ==
    {StrId(s) : s \in {"noterest", "multistop", "duration", "beat_strength", "fermata",
                       "measure", "dissonance", "ngram", "cadence"}}

AliasIds == {ClsId("noterest.NoteRestIndexer"), StrId("interval.IntervalIndexer")}

\* Identifiers that are no key of the table: unknown names, and the lists of
\* classes WorkflowManager passes.
UnknownIds ==
    {StrId("lyric"), ClsId("lyric.LyricIndexer"),
     ListId(<<"noterest.NoteRestIndexer">>),
     ListId(<<"noterest.NoteRestIndexer", "interval.IntervalIndexer">>)}

\* <<analyzer_cls, data, settings>>
Requests ==
    (IntervalIds \X {None} \X IntervalSetts)
    \cup (IntervalIds \X {ExtTable, ExtDict} \X {None, h_setts})
    \cup ({StrId("active_voices")} \X {None, ExtTable}
            \X {None, ActiveVoicesDefault, ActiveVoicesOther})
    \cup (PlainIds \X {None, ExtTable} \X {None, h_setts})
    \cup ({StrId("duration")} \X {ExtDict} \X {None})
    \cup (AliasIds \X {None} \X {None})
    \cup (UnknownIds \X {None, ExtTable} \X {None})

\* Whether the call hands an indexer an argument of the wrong type, so that
\* more than one outcome is possible.
IllTyped(data, settings) == data = ExtDict \/ (data = ExtTable /\ settings = None)

\* Field names that are no metadata field: an unknown string, and a non-string.
BadFields == {StrField("bogus"), [type |-> "int", v |-> "5"]}

\* The fields the metadata calls interleaved with get_data use.
FieldInputs == {StrField("title"), StrField("partRanges")} \cup BadFields

\* Every documented field, and the bad ones.
AllFieldInputs == {StrField(f) : f \in Whitelist} \cup BadFields

ValueInputs == {PyNone, "v1"}

Next ==
    \/ ImportScore
    \/ \E rq \in Requests :
         \E ext \in (IF IllTyped(rq[2], rq[3]) THEN ExtOutcomes ELSE {"ok"}) :
            GetData(rq[1], rq[2], rq[3], ext)
    \/ \E f \in FieldInputs, v \in ValueInputs : Metadata(f, v)

Spec == Init /\ [][Next]_vars

\* The metadata accessor alone, over every documented field.
NextMeta ==
    \/ ImportScore
    \/ \E f \in AllFieldInputs, v \in ValueInputs : Metadata(f, v)

SpecMeta == Init /\ [][NextMeta]_vars

-----------------------------------------------------------------------------
\* Properties of get_data and of the cache

\* A step that is one get_data call.
GetDataStep == call'.op = "get_data" /\ ncalls' = ncalls + 1

\* A step that is a get_data call, without data, repeating the request of the
\* get_data call before it.
SameRequestTwice ==
    /\ GetDataStep /\ call.op = "get_data"
    /\ call'.id = call.id /\ call'.settings = call.settings
    /\ call.data = None /\ call'.data = None

\* The analyzers whose method returns its cache entry whatever it is asked.
AlwaysCached ==
    {"noterest", "multistop", "duration", "beat_strength", "fermata", "measure", "dissonance"}

\* The interval settings that ask for the detailed table itself.
AsksDetailed == {None, _default_interval_setts, DetailBefore, DetailOmitted}

\* The short name of the analyzer a recognized identifier names.
ShortName(id) == (CHOOSE row \in _mkd : id.v[1] \in {row.short, row.long}).short

C2_CacheOnlyGrows ==
    [][\A k \in DOMAIN analyses : k \in DOMAIN analyses' /\ analyses'[k] = analyses[k]]_vars

\* A duration request with data answered while the piece's own durations are cached.
C2_Witness ==
    /\ call.op = "get_data" /\ call.id = StrId("duration") /\ call.data = ExtTable
    /\ call.err = "ok" /\ call.res.src = "data"
    /\ "duration" \in DOMAIN analyses /\ analyses["duration"].src = "score"

\* The cache key under which an analyzer's method keeps its result.
OwnKey(id) == ShortName(id)

\* C3 as stated: for every analyzer, a call that supplies data leaves nothing
\* computed from that data in the cache, returns a result computed from the
\* data, leaves the analyzer's own cache entry as it was, and a following
\* request for the same analyzer without data returns a result derived from the
\* piece's own score.
C3_DataNeverCached ==
    [][/\ (GetDataStep /\ call'.data # None /\ InMkd(call'.id)) =>
            /\ \A k \in DOMAIN analyses' : analyses'[k].src # "data"
            /\ call'.err = "ok" => call'.res.src = "data"
            /\ OwnKey(call'.id) \in DOMAIN analyses' <=> OwnKey(call'.id) \in DOMAIN analyses
            /\ OwnKey(call'.id) \in DOMAIN analyses =>
                  analyses'[OwnKey(call'.id)] = analyses[OwnKey(call'.id)]
       /\ (/\ GetDataStep /\ call.op = "get_data" /\ call.data # None
           /\ call'.id = call.id /\ call'.data = None /\ call'.err = "ok") =>
            call'.res.src = "score"]_vars

\* The cache key of each interval analyzer and the indexer that fills it.
IntervalKeys == {"vertical_interval", "horizontal_interval"}

BaseIndexer(key) ==
    IF key = "vertical_interval" THEN "IntervalIndexer" ELSE "HorizontalIntervalIndexer"

\* C4: IntervalIndexer and HorizontalIntervalIndexer have each run at most once;
\* the cache entry of each interval analyzer is the one table its indexer
\* computed from the piece's notes with the maximally detailed settings; and
\* an interval request with other settings was answered by a run of
\* IntervalReindexer over that cached table.
C4_ComputeOnceReduceMany ==
    /\ \A key \in IntervalKeys :
          /\ runs[BaseIndexer(key)] <= 1
          /\ runs[BaseIndexer(key)] = 1 <=> key \in DOMAIN analyses
          /\ key \in DOMAIN analyses =>
                /\ Id(analyses[key]) = <<BaseIndexer(key), 1>>
                /\ analyses[key].setts = _default_interval_setts
                /\ analyses[key].inp = <<Id(analyses["noterest"])>>
    /\ (/\ call.op = "get_data" /\ call.err = "ok" /\ call.data = None
        /\ InMkd(call.id) /\ ShortName(call.id) \in IntervalKeys
        /\ call.settings \notin AsksDetailed) =>
          /\ \E i \in DOMAIN call.ran : call.ran[i] = "IntervalReindexer"
          /\ call.res.ind = "IntervalReindexer" =>
                call.res.inp = <<Id(analyses[ShortName(call.id)])>>
          /\ call.res # analyses[ShortName(call.id)]

\* Simple vertical intervals asked for a second time: one run of the indexer,
\* two of the reindexer.
C4_Witness ==
    /\ call.op = "get_data" /\ call.id = StrId("vertical_interval") /\ call.again
    /\ call.settings = v_setts /\ call.err = "ok"
    /\ runs["IntervalIndexer"] = 1 /\ runs["IntervalReindexer"] = 2
    /\ call.res.inp = <<Id(analyses["vertical_interval"])>>

\* Whether a request asks for attach-later: no settings, or horiz_attach_later
\* true or left out.
AsksAttachLater(settings) ==
    \/ settings = None
    \/ "horiz_attach_later" \notin DOMAIN settings
    \/ Truthy(settings["horiz_attach_later"])

\* C5 as stated: a horizontal_interval result is attach-later when the request
\* has no settings or horiz_attach_later is true or left out, and attach-before
\* when it is false, whatever the other settings.
C5_AttachmentFollowsSetting ==
    (/\ call.op = "get_data" /\ call.err = "ok" /\ call.data = None
     /\ call.id = StrId("horizontal_interval")) =>
        call.res.attach = IF AsksAttachLater(call.settings) THEN "later" ELSE "before"

\* An identifier none of whose items is a name of the analyzer table.
NamesNoAnalyzer(id) == \A i \in DOMAIN id.v : id.v[i] \notin StrKeys

CalledAsClass(id) == \E row \in _mkd : row.handler = "class" /\ id.v[1] \in {row.short, row.long}

TakesData(id) == CalledAsClass(id) \/ ShortName(id) \in {"duration", "active_voices", "ngram"}

TakesSettings(id) ==
    \/ CalledAsClass(id)
    \/ ShortName(id) \in {"active_voices", "vertical_interval", "horizontal_interval", "ngram"}

RequiresData(id) == CalledAsClass(id) \/ ShortName(id) = "ngram"

Misfit(id, data, settings) ==
    \/ data # None /\ ~TakesData(id)
    \/ settings # None /\ ~TakesSettings(id)
    \/ data = None /\ RequiresData(id)

\* C7 as stated: a get_data call for a recognized analyzer with data or
\* settings the analyzer does not take, or without the data it requires, raises
\* RuntimeWarning and returns nothing.
C7_MisfitIsRuntimeWarning ==
    (/\ call.op = "get_data" /\ InMkd(call.id)
     /\ Misfit(call.id, call.data, call.settings)) =>
        call.err = "RuntimeWarning" /\ call.res = NoObj

\* C8 as stated: get_data given a list of analyzer names of a piece that has a
\* score applies them in order and returns the result of the last.
C8_ListOfAnalyzers ==
    (/\ call.op = "get_data" /\ call.id.type = "list" /\ call.data = None
     /\ score # "none" /\ \A i \in DOMAIN call.id.v : call.id.v[i] \in StrKeys) =>
        call.err = "ok" /\ call.res # NoObj

-----------------------------------------------------------------------------
\* Properties of metadata()

MetadataStep == call'.op = "metadata" /\ ncalls' = ncalls + 1

C10_WhitelistAccepted ==
    (/\ call.op = "metadata" /\ call.field.type = "str"
     /\ call.field.v \in Whitelist) =>
        call.err # "AttributeError"

-----------------------------------------------------------------------------
\* The aliases of an analyzer

\* The three keys of the row of the table whose short name is short: the short
\* name, the long name and the class.
Aliases(short) ==
    LET row == CHOOSE r \in _mkd : r.short = short
    IN  {StrId(row.short), StrId(row.long), ClsId(row.long)}

\* Requests without data or settings through every alias of four analyzers
\* whose methods keep their result in the cache.
AliasRequests ==
    UNION {Aliases(short) : short \in {"noterest", "duration", "active_voices", "vertical_interval"}}

NextAlias ==
    \/ ImportScore
    \/ \E id \in AliasRequests : GetData(id, None, None, "ok")

SpecAlias == Init /\ [][NextAlias]_vars

\* C11 as stated: of two successive requests, without data or settings, through
\* aliases of one analyzer whose method caches, the second returns the object
\* the first returned and runs nothing.
C11_AliasesShareOneResult ==
    [][(/\ GetDataStep /\ call.op = "get_data"
        /\ InMkd(call.id) /\ InMkd(call'.id)
        /\ Rows(call.id) = Rows(call'.id)
        /\ call.err = "ok") =>
          /\ call'.err = "ok"
          /\ call'.res = call.res
          /\ call'.ran = << >>]_vars

-----------------------------------------------------------------------------
\* The per-event transforms of the meter and lyric indexers

\* float('nan'), the marker of a missing cell; the only float the transforms meet.
NaN == [float |-> "nan"]

\* ``isinstance(event, float)``
IsFloat(event) == "float" \in DOMAIN event

\* What an exception leaves in place of a value.
Raised(e) == [err |-> e]

\* A value other than the missing marker in an output cell.
Val(x) == [val |-> x]

\* ``event.<name>``: a float has none of the attributes the transforms read.
Attr(event, name) ==
    IF name \in DOMAIN event THEN Val(event[name]) ELSE Raised("AttributeError")

\* ``hasattr(event, name)``
HasAttr(event, name) == name \in DOMAIN event

\* The tie types music21 knows; 'let-ring' is one tie_types has no entry for.
TieTypes == {"start", "continue", "stop", "let-ring"}

\* Notes and rests as the note/rest/chord table holds them: an event with its
\* tie (its type, or "None" when the event has no tie), lyric (Python None,
\* the empty string or a syllable) and beat strength.
NoteEvents ==
    [cls : {"Note"}, tie : TieTypes \cup {"None"}, lyric : {"None", "", "la"},
     beatStrength : {"1.0", "0.5"}]
    \cup [cls : {"Rest"}, tie : {"None"}, lyric : {"None"}, beatStrength : {"1.0", "0.5"}]

\* Measures, with their number.
MeasureEvents == [cls : {"Measure"}, number : {"0", "1"}]

\* Time signatures, with their ratio string.
TimeSignatureEvents == [cls : {"TimeSignature"}, ratioString : {"4/4", "3/4"}]

\* ``event.classes``: the names of the event's class and of the classes it derives from.
Classes(event) == {event.cls, "Music21Object"}

\* meter.tie_types
tie_types == [start |-> "[", continue |-> "_", stop |-> "]"]

\* beatstrength_ind_func reading the attribute of whatever it is given.
beatstrength_ind_func_NoFloatTest(event) == Attr(event, "beatStrength")

beatstrength_ind_func(event) ==
    IF IsFloat(event) THEN event ELSE Attr(event, "beatStrength")

measure_ind_func(event) ==
    IF IsFloat(event) THEN event ELSE Attr(event, "number")

tie_ind_func(event) ==
    IF IsFloat(event) THEN event
    ELSE IF HasAttr(event, "tie") /\ event.tie # "None"
    THEN (IF event.tie \in DOMAIN tie_types THEN Val(tie_types[event.tie])
          ELSE Raised("KeyError"))
    ELSE NaN

time_signature_ind_func(event) ==
    IF IsFloat(event) THEN event
    ELSE IF "TimeSignature" \in Classes(event) THEN Val("*M" \o event.ratioString)
    ELSE NaN

\* lyric.indexer_func
indexer_func(event) ==
    IF IsFloat(event) THEN event
    ELSE IF Attr(event, "lyric") \notin {Val("None"), Val("")} THEN Attr(event, "lyric")
    ELSE NaN

\* The piece variables where no piece is used.
NoPiece ==
    /\ score = "none" /\ imported = FALSE /\ analyses = [k \in {} |-> NoObj]
    /\ metadata = init_metadata /\ runs = [st \in Stages |-> 0]
    /\ call = NoCall /\ ncalls = 0

\* One cell of an input table: missing, or holding an event.
InitEvents ==
    /\ NoPiece /\ wm = NoManager /\ wcall = NoWCall
    /\ probe \in [op : {"cell"},
                  event : {NaN} \cup NoteEvents \cup MeasureEvents \cup TimeSignatureEvents]

\* The indexer applies its transform fn to the cell; out is the output cell.
Transform(fn, out) ==
    /\ probe.op = "cell"
    /\ probe' = [op |-> fn, event |-> probe.event, out |-> out]
    /\ UNCHANGED <<score, imported, analyses, metadata, runs, call, ncalls, wm, wcall>>

\* NoteBeatStrengthIndexer, over the note/rest/chord table.
BeatStrength ==
    /\ probe.event \in {NaN} \cup NoteEvents
    /\ Transform("beatstrength_ind_func", beatstrength_ind_func(probe.event))

\* MeasureIndexer, over the table of measures.
Measure ==
    /\ probe.event \in {NaN} \cup MeasureEvents
    /\ Transform("measure_ind_func", measure_ind_func(probe.event))

Tie ==
    /\ probe.event \in {NaN} \cup NoteEvents
    /\ Transform("tie_ind_func", tie_ind_func(probe.event))

\* time_signature_ind_func handles every type of music21 object.
TimeSignature ==
    /\ probe.event \in {NaN} \cup NoteEvents \cup MeasureEvents \cup TimeSignatureEvents
    /\ Transform("time_signature_ind_func", time_signature_ind_func(probe.event))

Lyric ==
    /\ probe.event \in {NaN} \cup NoteEvents
    /\ Transform("indexer_func", indexer_func(probe.event))

NextEvents == BeatStrength \/ Measure \/ Tie \/ TimeSignature \/ Lyric

SpecEvents == InitEvents /\ [][NextEvents]_vars

EventTransforms ==
    {"beatstrength_ind_func", "measure_ind_func", "tie_ind_func",
     "time_signature_ind_func", "indexer_func"}

\* C12: each of the five per-event transforms, applied to a missing cell,
\* returns the missing marker (and raises nothing, as reading an attribute of
\* the marker would).
C12_MissingStaysMissing ==
    (probe.op \in EventTransforms /\ probe.event = NaN) => probe.out = NaN

\* The beat-strength transform applied to a missing cell.
C12_Witness ==
    probe.op = "beatstrength_ind_func" /\ probe.event = NaN /\ probe.out = NaN

-----------------------------------------------------------------------------
\* Tables: pandas Series and DataFrames of the events of a score
\*
\* A Series is a sequence of rows [off, val] (its index may repeat an offset
\* and need not be sorted); a DataFrame is [index, cols], cols[p][r] being the
\* cell of column p in the row of offset index[r]; Raised(e) stands for a
\* table where building it raised e.

\* ``ser.index``
Offsets(ser) == [i \in 1..Len(ser) |-> ser[i].off]

\* ``index.is_unique``
IsUnique(idx) == \A i, j \in 1..Len(idx) : idx[i] = idx[j] => i = j

Range(f) == {f[i] : i \in DOMAIN f}

\* The elements of a set of numbers in increasing order.
RECURSIVE SortedSeq(_)
SortedSeq(S) ==
    IF S = {} THEN << >>
    ELSE LET m == CHOOSE x \in S : \A y \in S : x <= y
         IN  <<m>> \o SortedSeq(S \ {m})

\* ``ser.dropna()``
DropNa(ser) == SelectSeq(ser, LAMBDA row : row.val # NaN)

\* ``ser.apply(func)``
Apply(ser, func(_)) == [i \in 1..Len(ser) |-> [off |-> ser[i].off, val |-> func(ser[i].val)]]

\* The cell a Series with a unique index has at an offset.
CellAt(ser, off) ==
    IF \E i \in 1..Len(ser) : ser[i].off = off
    THEN ser[CHOOSE i \in 1..Len(ser) : ser[i].off = off].val
    ELSE NaN

\* ``pandas.concat(sers, axis=1)``: with nothing to concatenate it raises; Series
\* that all have the same index are put side by side as they are; otherwise
\* each is reindexed to the sorted union of the indexes, which pandas refuses
\* to do for a Series whose index repeats a value.
Concat(sers) ==
    IF Len(sers) = 0 THEN Raised("ValueError")
    ELSE IF \A i \in 1..Len(sers) : Offsets(sers[i]) = Offsets(sers[1])
    THEN [index |-> Offsets(sers[1]),
          cols |-> [i \in 1..Len(sers) |-> [r \in 1..Len(sers[i]) |-> sers[i][r].val]]]
    ELSE IF \E i \in 1..Len(sers) : ~IsUnique(Offsets(sers[i]))
    THEN Raised("InvalidIndexError")
    ELSE [index |-> SortedSeq(UNION {Range(Offsets(sers[i])) : i \in 1..Len(sers)}),
          cols |-> [i \in 1..Len(sers) |->
                      [r \in 1..Cardinality(UNION {Range(Offsets(sers[j])) : j \in 1..Len(sers)}) |->
                          CellAt(sers[i],
                                 SortedSeq(UNION {Range(Offsets(sers[j])) : j \in 1..Len(sers)})[r])]]]

\* ``df.iloc[:, p]``
Column(df, p) == [r \in 1..Len(df.index) |-> [off |-> df.index[r], val |-> df.cols[p][r]]]

\* ``df.applymap(func)``
ApplyMap(df, func(_)) ==
    [index |-> df.index,
     cols |-> [p \in 1..Len(df.cols) |-> [r \in 1..Len(df.index) |-> func(df.cols[p][r])]]]

\* The rows of df, in order, that keep(r) selects.
RECURSIVE RowsKept(_, _, _)
RowsKept(df, keep(_), r) ==
    IF r > Len(df.index) THEN << >>
    ELSE (IF keep(r) THEN <<r>> ELSE << >>) \o RowsKept(df, keep, r + 1)

TakeRows(df, rows) ==
    [index |-> [k \in 1..Len(rows) |-> df.index[rows[k]]],
     cols |-> [p \in 1..Len(df.cols) |-> [k \in 1..Len(rows) |-> df.cols[p][rows[k]]]]]

\* ``df.dropna(how='all')``
DropNaAll(df) ==
    TakeRows(df, RowsKept(df, LAMBDA r : \E p \in 1..Len(df.cols) : df.cols[p][r] # NaN, 1))

-----------------------------------------------------------------------------
\* Parts

\* The objects of a part: notes, rests and chords with their offset in the
\* part, their pitches (highest first) and tie type; clefs; Voice containers
\* with the objects they hold.
Note(off, pitch, tie) == [cls |-> "Note", off |-> off, pitches |-> <<pitch>>, tie |-> tie]

Rest(off) == [cls |-> "Rest", off |-> off, pitches |-> << >>, tie |-> "None"]

\* ``chord.Chord(pitches)``, an object that is in no stream.
Chord(pitches) == [cls |-> "Chord", pitches |-> pitches, tie |-> "None"]

\* ``music21.note.Rest()``
NewRest == [cls |-> "Rest", pitches |-> << >>, tie |-> "None"]

Clef(off) == [cls |-> "Clef", off |-> off]

Voice(off, elems) == [cls |-> "Voice", off |-> off, elems |-> elems]

\* ``part.recurse()``: every object of the part, a container before what it holds.
RECURSIVE Recurse(_)
Recurse(items) ==
    IF items = << >> THEN << >>
    ELSE (IF Head(items).cls = "Voice" THEN <<Head(items)>> \o Head(items).elems
          ELSE <<Head(items)>>) \o Recurse(Tail(items))

\* One Series of _get_m21_objs: the objects of a part, indexed by their offset in it.
M21Objs(part) ==
    [i \in 1..Len(Recurse(part.items)) |->
        [off |-> Recurse(part.items)[i].off, val |-> Recurse(part.items)[i]]]

_noterest_types == {"Note", "Rest", "Chord"}

_type_func_noterest(event) == IF event.cls \in _noterest_types THEN event ELSE NaN

_type_func_voice(event) == IF event.cls = "Voice" THEN event ELSE NaN

\* A tie filter that drops only the continuations of a tie, not its end.
_eliminate_ties_KeepsStop(event) ==
    IF HasAttr(event, "tie") /\ event.tie = "continue" THEN NaN ELSE event

_eliminate_ties(event) ==
    IF HasAttr(event, "tie") /\ event.tie # "None" /\ event.tie # "start" THEN NaN ELSE event

\* A tuple of pitches, wrapped so that it compares with the missing marker.
Pitches(seq) == [pitches |-> seq]

_get_pitches(event) ==
    IF IsFloat(event) THEN event
    ELSE IF event.cls = "Note" THEN Pitches(event.pitches)
    ELSE IF event.cls = "Rest" THEN NaN
    ELSE Pitches(event.pitches)

_reinsert_rests(event) == IF IsFloat(event) THEN NewRest ELSE event

\* A sequence of numbers in decreasing order: ``sorted(seq, reverse=True)``.
RECURSIVE InsertDesc(_, _)
InsertDesc(x, sorted) ==
    IF sorted = << >> \/ x >= Head(sorted) THEN <<x>> \o sorted
    ELSE <<Head(sorted)>> \o InsertDesc(x, Tail(sorted))

RECURSIVE SortedDesc(_)
SortedDesc(seq) == IF seq = << >> THEN << >> ELSE InsertDesc(Head(seq), SortedDesc(Tail(seq)))

\* ``[pitch for lyst in x.dropna() for pitch in lyst]`` for row r of df, from column p on.
RECURSIVE RowPitches(_, _, _)
RowPitches(df, r, p) ==
    IF p > Len(df.cols) THEN << >>
    ELSE (IF df.cols[p][r] = NaN THEN << >> ELSE df.cols[p][r].pitches)
         \o RowPitches(df, r, p + 1)

\* ``indecies[k]`` of _combine_voices, where indecies[0] = 0.
RECURSIVE Indecies(_, _)
Indecies(voices, k) ==
    IF k = 0 THEN 0 ELSE Len(voices[k].val.elems) + Indecies(voices, k - 1)

\* ``ser.iloc[from : to]`` (from and to count from 0, to excluded, clipped to the Series)
ILoc(ser, from, to) ==
    IF from >= Len(ser) THEN << >>
    ELSE SubSeq(ser, from + 1, IF to > Len(ser) THEN Len(ser) ELSE to)

\* ``df.apply(lambda x: chord.Chord(sorted(..., reverse=True)), axis=1).apply(_reinsert_rests)``
Condense(df) ==
    IF "err" \in DOMAIN df THEN df
    ELSE [ser |-> [r \in 1..Len(df.index) |->
                     [off |-> df.index[r],
                      val |-> _reinsert_rests(Chord(SortedDesc(RowPitches(df, r, 1))))]]]

\* ``pandas.concat(temp, axis=1).applymap(_get_pitches)``
VoiceColumns(df) == IF "err" \in DOMAIN df THEN df ELSE ApplyMap(df, _get_pitches)

\* The part of _combine_voices after its early return.
CombineSlices(ser, voices) ==
    Condense(VoiceColumns(Concat(
        [k \in 1..Len(voices) |->
            ILoc(ser, Indecies(voices, k - 1), Indecies(voices, k))])))

\* _combine_voices(ser, part): [ser |-> the Series returned], or Raised(e).
_combine_voices(ser, part) ==
    IF Len(DropNa(Apply(part, _type_func_voice))) < 1 THEN [ser |-> ser]
    ELSE CombineSlices(ser, DropNa(Apply(part, _type_func_voice)))

\* One part's Series in _get_m21_nrc_objs: its notes, rests and chords, the
\* voices combined where the offsets are not unique.
NrcSeries(part) ==
    IF ~IsUnique(Offsets(DropNa(Apply(M21Objs(part), _type_func_noterest))))
    THEN _combine_voices(DropNa(Apply(M21Objs(part), _type_func_noterest)), M21Objs(part))
    ELSE [ser |-> DropNa(Apply(M21Objs(part), _type_func_noterest))]

\* The table _get_m21_nrc_objs computes for the parts of a score.
M21NrcObjs(parts) ==
    IF \E i \in 1..Len(parts) : "err" \in DOMAIN NrcSeries(parts[i])
    THEN NrcSeries(parts[CHOOSE i \in 1..Len(parts) :
                            /\ "err" \in DOMAIN NrcSeries(parts[i])
                            /\ \A j \in 1..(i - 1) : "err" \notin DOMAIN NrcSeries(parts[j])])
    ELSE Concat([i \in 1..Len(parts) |-> NrcSeries(parts[i]).ser])

\* The table _get_m21_nrc_objs_no_tied computes from that of _get_m21_nrc_objs.
M21NrcObjsNoTied(nrc) ==
    IF Len(nrc.index) = 0 THEN nrc ELSE DropNaAll(ApplyMap(nrc, _eliminate_ties))

\* ``pandas.Series((new[1:] - indx), index=indx)`` of DurationIndexer.run.
DurationSeries(indx, highestTime) ==
    [i \in 1..Len(indx) |->
        [off |-> indx[i],
         val |-> Val((IF i < Len(indx) THEN indx[i + 1] ELSE highestTime) - indx[i])]]

\* DurationIndexer(score, part_streams).run()
DurationIndexerRun(table, parts) ==
    IF Len(table.index) = 0 THEN table
    ELSE Concat([p \in 1..Len(table.cols) |->
                    DurationSeries(Offsets(DropNa(Column(table, p))), parts[p].highestTime)])

\* HorizontalIntervalIndexer with horiz_attach_later True: in each voice the
\* interval from the event before is indexed at the offset of the later event.
HorizontalSeries(notes) ==
    [i \in 1..(IF Len(notes) = 0 THEN 0 ELSE Len(notes) - 1) |->
        [off |-> notes[i + 1].off, val |-> Val(<<notes[i].off, notes[i + 1].off>>)]]

HorizontalIntervalIndexerRun(table) ==
    Concat([p \in 1..Len(table.cols) |-> HorizontalSeries(DropNa(Column(table, p)))])

\* ``ser.index = numpy.insert(ser.index, 0, 0.0)[:-1]``
ShiftIndex(ser) ==
    [i \in 1..Len(ser) |-> [off |-> IF i = 1 THEN 0 ELSE ser[i - 1].off, val |-> ser[i].val]]

\* _attach_before(df) as a computation on tables.
AttachBeforeTable(df) ==
    Concat([p \in 1..Len(df.cols) |-> ShiftIndex(DropNa(Column(df, p)))])

-----------------------------------------------------------------------------
\* The tables of a score, stage by stage

Part(items, highestTime) == [items |-> items, highestTime |-> highestTime]

\* The parts explored: one voice from offset 0 and from offset 1; tied notes;
\* two Voice containers sounding together, and two that alternate; two notes
\* at one offset with no Voice container (a grace note); a note outside the
\* two voices of the part; a voice that holds a clef; a part with no event,
\* and one with only a clef.
PartStreams ==
    { Part(<<Note(0, 60, "None"), Note(1, 62, "None"), Rest(2)>>, 3),
      Part(<<Note(1, 60, "None"), Note(2, 62, "None")>>, 3),
      Part(<<Note(0, 60, "start"), Note(1, 60, "stop"), Note(2, 62, "None")>>, 3),
      Part(<<Voice(0, <<Note(0, 67, "None"), Note(1, 65, "None")>>),
             Voice(0, <<Note(0, 60, "None"), Rest(1)>>)>>, 2),
      Part(<<Voice(0, <<Note(0, 67, "None"), Note(2, 65, "None")>>),
             Voice(0, <<Note(1, 60, "None")>>)>>, 3),
      Part(<<Note(0, 62, "None"), Note(0, 60, "None"), Note(1, 64, "None")>>, 2),
      Part(<<Note(0, 60, "None"),
             Voice(1, <<Note(1, 67, "None")>>), Voice(1, <<Note(1, 64, "None")>>)>>, 2),
      Part(<<Voice(0, <<Clef(0), Note(0, 67, "None")>>),
             Voice(0, <<Note(0, 60, "None")>>)>>, 1),
      Part(<< >>, 0),
      Part(<<Clef(0)>>, 0) }

\* Scores of one or two parts.
Scores == {<<a>> : a \in PartStreams} \cup {<<a, b>> : a \in PartStreams, b \in PartStreams}

InitTables ==
    /\ NoPiece /\ wm = NoManager /\ wcall = NoWCall
    /\ probe \in [op : {"score"}, parts : Scores]

\* The stage named op computes table from the table of the stage before.
Stage(op, table) ==
    /\ probe' = [op |-> op, parts |-> probe.parts, table |-> table]
    /\ UNCHANGED <<score, imported, analyses, metadata, runs, call, ncalls, wm, wcall>>

\* Whether the stage of the current state produced a table.
Produced(op) == probe.op = op /\ "err" \notin DOMAIN probe.table

GetM21NrcObjs ==
    /\ probe.op = "score"
    /\ Stage("m21_nrc_objs", M21NrcObjs(probe.parts))

GetM21NrcObjsNoTied ==
    /\ Produced("m21_nrc_objs")
    /\ Stage("m21_nrc_objs_no_tied", M21NrcObjsNoTied(probe.table))

GetDuration ==
    /\ Produced("m21_nrc_objs_no_tied")
    /\ Stage("duration", DurationIndexerRun(probe.table, probe.parts))

GetHorizontalInterval ==
    /\ Produced("m21_nrc_objs_no_tied")
    /\ Stage("horizontal_interval", HorizontalIntervalIndexerRun(probe.table))

AttachBefore ==
    /\ Produced("horizontal_interval")
    /\ Stage("_attach_before", AttachBeforeTable(probe.table))

NextTables ==
    GetM21NrcObjs \/ GetM21NrcObjsNoTied \/ GetDuration \/ GetHorizontalInterval \/ AttachBefore

SpecTables == InitTables /\ [][NextTables]_vars

\* ``index.is_monotonic_increasing and index.is_unique``
StrictlyIncreasing(idx) == \A i \in 1..(Len(idx) - 1) : idx[i] < idx[i + 1]

\* C13 as stated: the note/rest/chord table, before and after tie
\* elimination, the duration table and the attach-before table of any score
\* have a strictly increasing row index.
C13_IndexStrictlyIncreasing ==
    \A op \in {"m21_nrc_objs", "m21_nrc_objs_no_tied", "duration", "_attach_before"} :
        Produced(op) => StrictlyIncreasing(probe.table.index)

-----------------------------------------------------------------------------
\* WorkflowManager

\* One item of the list given to the constructor: its Python type and, for a
\* pathname or an IndexedPiece, the pathname it carries.
Item(type, path) == [type |-> type, path |-> path]

\* ``IndexedPiece(pathname)``: no score imported yet, nothing cached.
IndexedPiece(pathname) ==
    [pathname |-> pathname,
     an |-> [k \in {} |-> NoObj],
     md |-> [init_metadata EXCEPT !["pathname"] = pathname]]

\* An IndexedPiece the caller made and gave a title before handing it over.
GivenPiece(pathname) == [IndexedPiece(pathname) EXCEPT !.md["title"] = "given"]

\* The settings of one piece after the constructor's two loops.
InitialSettings ==
    [sett \in {"offset interval", "voice combinations", "filter repeats",
               "interval quality", "simple intervals"} |->
        IF sett \in {"offset interval", "voice combinations"} THEN PyNone ELSE "False"]

\* A constructor making a piece of every item, whatever its type.
Post_KeepsAll(vals) == [i \in 1..Len(vals) |-> IndexedPiece(vals[i].path)]

RECURSIVE Post(_)
\* ``post``: the pieces the constructor's loop over vals appends, in order.
Post(vals) ==
    IF vals = << >> THEN << >>
    ELSE LET each_val == Head(vals)
         IN  (IF each_val.type = "basestring" THEN <<IndexedPiece(each_val.path)>>
              ELSE IF each_val.type = "IndexedPiece" THEN <<GivenPiece(each_val.path)>>
              ELSE << >>) \o Post(Tail(vals))

\* ``WorkflowManager(vals)``
WorkflowManager(vals) ==
    [data |-> Post(vals),
     result |-> None,
     settings |-> [i \in 1..Len(Post(vals)) |-> InitialSettings]]

\* ``len(manager)``
__len__(m) == Len(m.data)

\* The context in which a piece of the manager answers get_data.
PieceCtx(piece) ==
    [an |-> piece.an, rn |-> [st \in Stages |-> 0], ran |-> << >>, ext |-> "ok"]

\* ``for piece in self._data: <Body>``, from piece i on.  The loop ends at the
\* first piece whose body raises; touched counts the pieces asked for data.
RECURSIVE ForEachPiece(_, _, _, _)
ForEachPiece(data, i, Body(_), touched) ==
    IF i > Len(data) THEN [data |-> data, err |-> "ok", touched |-> touched]
    ELSE IF Body(PieceCtx(data[i])).err # "ok"
    THEN [data |-> [data EXCEPT ![i].an = Body(PieceCtx(data[i])).c.an],
          err |-> Body(PieceCtx(data[i])).err, touched |-> touched + 1]
    ELSE ForEachPiece([data EXCEPT ![i].an = Body(PieceCtx(data[i])).c.an],
                      i + 1, Body, touched + 1)

\* The outcome of a call on the manager: the manager after it, what it
\* returned, "ok" or the exception it raised, and how many pieces it asked.
Outcome(m, ret, err, touched) == [m |-> m, ret |-> ret, err |-> err, touched |-> touched]

\* The manager after a loop over its pieces.
AfterLoop(m, loop) == [m EXCEPT !.data = loop.data]

\* ``load(instruction)``
load(m, instruction) ==
    IF instruction = "pieces"
    THEN Outcome(AfterLoop(m, ForEachPiece(m.data, 1,
                    LAMBDA c : get_data(c, ListId(<<"noterest.NoteRestIndexer">>), None, None), 0)),
                 None,
                 ForEachPiece(m.data, 1,
                    LAMBDA c : get_data(c, ListId(<<"noterest.NoteRestIndexer">>), None, None), 0).err,
                 ForEachPiece(m.data, 1,
                    LAMBDA c : get_data(c, ListId(<<"noterest.NoteRestIndexer">>), None, None), 0).touched)
    ELSE IF instruction \in {"hdf5", "stata", "pickle"}
    THEN Outcome(m, None, "NotImplementedError", 0)
    ELSE Outcome(m, None, "ok", 0)

possible_instructions ==
    <<"all-combinations intervals", "all 2-part interval n-grams", "all-voice interval n-grams">>

\* ``min([len(x) for x in possible_instructions])``
MinLen(names) ==
    CHOOSE n \in {Len(names[i]) : i \in DOMAIN names} :
        \A i \in DOMAIN names : n <= Len(names[i])

\* ``s.startswith(prefix)``
StartsWith(s, prefix) == Len(s) >= Len(prefix) /\ SubSeq(s, 1, Len(prefix)) = prefix

\* ``-1 != s.rfind(sub)``
Found(s, sub) == \E i \in 1..(Len(s) - Len(sub) + 1) : SubSeq(s, i, i + Len(sub) - 1) = sub

\* What the body of the loop of _intervs asks of one piece.
IntervsBody(c, settings) ==
    Then(get_data(c, ListId(<<"noterest.NoteRestIndexer", "interval.IntervalIndexer">>),
                  settings, None),
         LAMBDA p : get_data(p.c, ListId(<<"frequency.FrequencyExperimenter",
                                           "aggregator.ColumnAggregator">>),
                             ExtDict, ExtTable))

\* What the body of the loop of _two_part_modules and of _all_part_modules asks
\* of one piece.
ModulesBody(c, settings) ==
    Then(get_data(c, ListId(<<"noterest.NoteRestIndexer", "interval.IntervalIndexer">>),
                  settings, None),
         LAMBDA p :
            Then(get_data(p.c, ListId(<<"noterest.NoteRestIndexer",
                                        "interval.HorizontalIntervalIndexer">>),
                          settings, None),
                 LAMBDA q : get_data(q.c, ListId(<<"ngram.NGramIndexer",
                                                   "frequency.FrequencyExperimenter">>),
                                     ExtDict, ExtTable)))

\* ``AggregatedPieces(self._data).get_data([aggregator.ColumnAggregator], None, {}, freqs)``
\* followed by ``post.sort(ascending=False)``: the frequencies of all pieces,
\* summed and sorted, unless the aggregation raises agg.
Aggregated(workflow, data, agg) ==
    IF agg # "ok" THEN Raised(agg)
    ELSE [table |-> "frequencies", workflow |-> workflow, pieces |-> Len(data),
          sort |-> "descending"]

\* One of the three workflows: the loop over the pieces, then the aggregation.
Workflow(m, workflow, loop, agg) ==
    IF loop.err # "ok" THEN Outcome(AfterLoop(m, loop), None, loop.err, loop.touched)
    ELSE IF agg # "ok" THEN Outcome(AfterLoop(m, loop), None, agg, loop.touched)
    ELSE Outcome(AfterLoop(m, loop), Aggregated(workflow, m.data, agg), "ok", loop.touched)

_intervs(m, settings, agg) ==
    Workflow(m, "_intervs",
             ForEachPiece(m.data, 1, LAMBDA c : IntervsBody(c, settings), 0), agg)

_two_part_modules(m, settings, agg) ==
    Workflow(m, "_two_part_modules",
             ForEachPiece(m.data, 1, LAMBDA c : ModulesBody(c, settings), 0), agg)

_all_part_modules(m, settings, agg) ==
    Workflow(m, "_all_part_modules",
             ForEachPiece(m.data, 1, LAMBDA c : ModulesBody(c, settings), 0), agg)

\* The body of _for_sc is ``pass``.
_for_sc(to_format) == None

\* The end of run(), after a workflow returned post.
Finish(instruction, w) ==
    IF w.err # "ok" THEN w
    ELSE IF Found(instruction, " for SuperCollider")
    THEN Outcome([w.m EXCEPT !.result = _for_sc(w.ret)], _for_sc(w.ret), "ok", w.touched)
    ELSE Outcome([w.m EXCEPT !.result = w.ret], w.ret, "ok", w.touched)

\* run() assigning self._result = post before it parses the instruction.
run_StoresFirst(m, instruction, settings, agg) ==
    IF Len(instruction) < MinLen(possible_instructions)
    THEN Outcome([m EXCEPT !.result = None], None, "RuntimeError", 0)
    ELSE IF StartsWith(instruction, possible_instructions[1])
    THEN Finish(instruction, _intervs(m, settings, agg))
    ELSE IF StartsWith(instruction, possible_instructions[2])
    THEN Finish(instruction, _two_part_modules(m, settings, agg))
    ELSE IF StartsWith(instruction, possible_instructions[3])
    THEN Finish(instruction, _all_part_modules(m, settings, agg))
    ELSE Outcome([m EXCEPT !.result = None], None, "RuntimeError", 0)

\* ``run(instruction, settings)``
run(m, instruction, settings, agg) ==
    IF Len(instruction) < MinLen(possible_instructions)
    THEN Outcome(m, None, "RuntimeError", 0)
    ELSE IF StartsWith(instruction, possible_instructions[1])
    THEN Finish(instruction, _intervs(m, settings, agg))
    ELSE IF StartsWith(instruction, possible_instructions[2])
    THEN Finish(instruction, _two_part_modules(m, settings, agg))
    ELSE IF StartsWith(instruction, possible_instructions[3])
    THEN Finish(instruction, _all_part_modules(m, settings, agg))
    ELSE Outcome(m, None, "RuntimeError", 0)

\* The default of output()'s pathname.
OutputPathname == "test_output/output_result"

\* ``output(instruction)``
output(m, instruction) ==
    IF instruction = "LilyPond" THEN Outcome(m, None, "NotImplementedError", 0)
    ELSE IF instruction = "R histogram"
    THEN IF m.result = None
         THEN Outcome(m, None, "RuntimeError", 0)
         ELSE Outcome(m, Val(OutputPathname \o ".png"), "ok", 0)
    ELSE Outcome(m, None, "RuntimeError", 0)

\* An index as settings() receives it: None, or an integer.
Int_(i) == [int |-> i]

\* settings() for an integer index, writing the value into the settings of
\* every piece instead of the piece's own.
settings_at_EveryPiece(m, index, field, value) ==
    IF ~(0 <= index /\ index < Len(m.settings))
    THEN Outcome(m, None, "IndexError", 0)
    ELSE IF field \notin DOMAIN m.settings[index + 1]
    THEN Outcome(m, None, "AttributeError", 0)
    ELSE IF value = PyNone
    THEN Outcome(m, Val(m.settings[index + 1][field]), "ok", 0)
    ELSE Outcome([m EXCEPT !.settings = [i \in DOMAIN m.settings |->
                                            [m.settings[i] EXCEPT ![field] = value]]],
                 None, "ok", 0)

\* ``self.settings(index, field, value)`` for an integer index.
settings_at(m, index, field, value) ==
    IF ~(0 <= index /\ index < Len(m.settings))
    THEN Outcome(m, None, "IndexError", 0)
    ELSE IF field \notin DOMAIN m.settings[index + 1]
    THEN Outcome(m, None, "AttributeError", 0)
    ELSE IF value = PyNone
    THEN Outcome(m, Val(m.settings[index + 1][field]), "ok", 0)
    ELSE Outcome([m EXCEPT !.settings[index + 1][field] = value], None, "ok", 0)

\* ``for i in xrange(len(self._settings)): self.settings(i, field, value)``, from i on.
RECURSIVE settings_all(_, _, _, _)
settings_all(m, i, field, value) ==
    IF i >= Len(m.settings) THEN Outcome(m, None, "ok", 0)
    ELSE IF settings_at(m, i, field, value).err # "ok"
    THEN settings_at(m, i, field, value)
    ELSE settings_all(settings_at(m, i, field, value).m, i + 1, field, value)

\* ``self._data[index]``: the position in the list a Python index selects,
\* counted from 1, a negative index counting from the end; 0 where Python
\* raises IndexError.
ListPosition(len, index) ==
    IF 0 <= index /\ index < len THEN index + 1
    ELSE IF index < 0 /\ -len <= index THEN len + index + 1
    ELSE 0

\* WorkflowManager.metadata(index, field, value)
manager_metadata(m, index, field, value) ==
    IF ListPosition(Len(m.data), index) = 0
    THEN Outcome(m, None, "IndexError", 0)
    ELSE Outcome([m EXCEPT !.data[ListPosition(Len(m.data), index)].md =
                     metadata_call(@, StrField(field), value).md],
                 Val(metadata_call(m.data[ListPosition(Len(m.data), index)].md,
                                   StrField(field), value).ret),
                 metadata_call(m.data[ListPosition(Len(m.data), index)].md,
                               StrField(field), value).err,
                 0)

\* ``settings(index, field, value)``
settings(m, index, field, value) ==
    IF index = None
    THEN IF value = PyNone
         THEN Outcome(m, None, "ValueError", 0)
         ELSE settings_all(m, 0, field, value)
    ELSE settings_at(m, index.int, field, value)

-----------------------------------------------------------------------------
\* The manager's state machine

\* The lists a manager is built from: pathnames, IndexedPieces and other things.
ValLists ==
    LET items == {Item("basestring", "a.xml"), Item("IndexedPiece", "c.xml"), Item("int", "4")}
    IN  {<< >>} \cup {<<x>> : x \in items} \cup {<<x, y>> : x \in items, y \in items}
        \cup {<<Item("basestring", "help.txt"), Item("basestring", "path.xml"),
                Item("int", "4"), Item("basestring", "why_you_do_this.rtf")>>}

LoadInstructions == {"pieces", "hdf5", "stata", "pickle", "piece", "all the data"}

RunInstructions ==
    {possible_instructions[i] : i \in DOMAIN possible_instructions}
    \cup {"all-combinations intervals for SuperCollider",
          "too short",
          "intervals",
          "this just doesn't work at all, even though it's long enough",
          "every interval in every piece for SuperCollider"}

OutputInstructions == {"LilyPond", "R histogram", "eat dirt"}

SettingsIndexes == {None} \cup {Int_(i) : i \in -1..2} \cup {Int_(20)}

SettingsFields == {"offset interval", "filter repeats", "drink wine"}

SettingsValues == {PyNone, "True", "0.5"}

\* ``WorkflowManager(vals)``; the pieces it creates have no score yet.
InitWorkflow ==
    /\ NoPiece /\ probe = NoProbe
    /\ \E vals \in ValLists :
          /\ wm = WorkflowManager(vals)
          /\ wcall = [op |-> "__init__", vals |-> vals, instruction |-> "", index |-> None,
                      field |-> "", value |-> PyNone, err |-> "ok", ret |-> None,
                      touched |-> 0, n |-> 0, agg |-> "ok", loaded |-> FALSE,
                      completed |-> FALSE]

\* One call on the manager with outcome r.  agg: how the aggregation across
\* pieces would end; loaded: a load('pieces') has returned; completed: a run()
\* has returned.
ManagerCall(op, instruction, index, field, value, agg, r) ==
    /\ wm' = r.m
    /\ wcall' = [op |-> op, vals |-> wcall.vals, instruction |-> instruction, index |-> index,
                 field |-> field, value |-> value, err |-> r.err, ret |-> r.ret,
                 touched |-> r.touched, n |-> wcall.n + 1, agg |-> agg,
                 loaded |-> wcall.loaded \/ (op = "load" /\ instruction = "pieces" /\ r.err = "ok"),
                 completed |-> wcall.completed \/ (op = "run" /\ r.err = "ok")]
    /\ UNCHANGED <<score, imported, analyses, metadata, runs, call, ncalls, probe>>

Load(instruction) ==
    /\ wcall.n < MaxCalls
    /\ ManagerCall("load", instruction, None, "", PyNone, "ok", load(wm, instruction))

RunWorkflow(instruction, setts, agg) ==
    /\ wcall.n < MaxCalls
    /\ ManagerCall("run", instruction, None, "", PyNone, agg, run(wm, instruction, setts, agg))

Output(instruction) ==
    /\ wcall.n < MaxCalls
    /\ ManagerCall("output", instruction, None, "", PyNone, "ok", output(wm, instruction))

Settings(index, field, value) ==
    /\ wcall.n < MaxCalls
    /\ ManagerCall("settings", "", index, field, value, "ok", settings(wm, index, field, value))

ManagerMetadata(index, field, value) ==
    /\ wcall.n < MaxCalls
    /\ ManagerCall("metadata", "", Int_(index), field, value, "ok",
                   manager_metadata(wm, index, field, value))

NextWorkflow ==
    \/ \E instruction \in LoadInstructions : Load(instruction)
    \/ \E instruction \in RunInstructions, setts \in {None, v_setts},
          agg \in {"ok", "RuntimeError"} :
          RunWorkflow(instruction, setts, agg)
    \/ \E instruction \in OutputInstructions : Output(instruction)
    \/ \E index \in SettingsIndexes, field \in SettingsFields, value \in SettingsValues :
          Settings(index, field, value)
    \/ \E index \in -1..2, field \in {"title", "bogus"}, value \in ValueInputs :
          ManagerMetadata(index, field, value)

SpecWorkflow == InitWorkflow /\ [][NextWorkflow]_vars

-----------------------------------------------------------------------------
\* Claims about the manager

\* An instruction run() accepts: it begins with the name of a workflow.
ValidInstruction(instruction) ==
    /\ Len(instruction) >= MinLen(possible_instructions)
    /\ \E i \in DOMAIN possible_instructions : StartsWith(instruction, possible_instructions[i])

\* C14 as stated: run() on a manager whose load('pieces') has not returned
\* raises an error without asking any piece for data, and run() with a valid
\* instruction on a manager whose load('pieces') has returned computes and
\* returns the result (unless the aggregation across pieces itself fails).
C14_RunNeedsLoad ==
    wcall.op = "run" =>
        /\ ~wcall.loaded => wcall.err # "ok" /\ wcall.touched = 0
        /\ (wcall.loaded /\ ValidInstruction(wcall.instruction) /\ wcall.agg = "ok")
              => wcall.err = "ok" /\ wcall.ret = wm.result

\* A call of settings() is the step being taken.
SettingsStep == wcall'.op = "settings" /\ wcall'.n = wcall.n + 1

\* The names of the settings a piece has.
ValidFields == DOMAIN InitialSettings

\* ``0 <= index < len(manager)`` for an integer index.
ValidIndex(index) == index # None /\ 0 <= index.int /\ index.int < __len__(wm)

OutOfRange(index) == index # None /\ ~ValidIndex(index)

\* C16 as stated: settings() raises ValueError when index and value are both
\* None, IndexError for an integer index outside 0..len-1, and AttributeError
\* for a field that is no setting, whatever the index (None included), the
\* value and the size of the manager; a call that raises changes nothing.
\* Where two of the three conditions hold at once either error satisfies it.
C16_ErrorsSignalled ==
    [][SettingsStep =>
         LET bothNone == wcall'.index = None /\ wcall'.value = PyNone
             badIndex == OutOfRange(wcall'.index)
             badField == wcall'.field \notin ValidFields
             allowed == (IF bothNone THEN {"ValueError"} ELSE {})
                        \cup (IF badIndex THEN {"IndexError"} ELSE {})
                        \cup (IF badField THEN {"AttributeError"} ELSE {})
         IN  /\ (bothNone \/ badIndex \/ badField) => wcall'.err \in allowed
             /\ wcall'.err # "ok" => wm' = wm
      ]_vars

\* The items of vals that are a pathname or an IndexedPiece, in order.
Kept(vals) == SelectSeq(vals, LAMBDA x : x.type \in {"basestring", "IndexedPiece"})

C18_LoadRejectsUnknown ==
    wcall.op = "load" =>
        /\ wcall.instruction \in {"hdf5", "stata", "pickle"} => wcall.err = "NotImplementedError"
        /\ wcall.instruction \notin {"pieces", "hdf5", "stata", "pickle"}
              => wcall.err = "RuntimeError"

\* A call of run() is the step being taken.
RunStep == wcall'.op = "run" /\ wcall'.n = wcall.n + 1

C20_ResultAfterRun ==
    /\ (wcall.op = "output" /\ wcall.instruction = "R histogram")
          => (wcall.err = "RuntimeError" <=> ~wcall.completed)
    /\ (wcall.op = "run" /\ wcall.err = "ok")
          => (wm.result = wcall.ret /\ wm.result # None)
    /\ (wcall.op = "output" /\ wcall.instruction \notin {"R histogram", "LilyPond"})
          => wcall.err = "RuntimeError"

-----------------------------------------------------------------------------
\* Further claims about a single piece

\* A request for the active voices of the piece itself, with the indexer's
\* default settings or none.
DefaultActiveVoices(c) ==
    /\ c.op = "get_data" /\ Rows(c.id) # {} /\ Handler(c.id) = "_get_active_voices"
    /\ c.data = None /\ c.settings \in {None, ActiveVoicesDefault}

\* C21 as stated: once 'active_voices' is cached, a request for the active
\* voices with default or no settings returns the cached table and does not
\* run the ActiveVoicesIndexer, and no request replaces the cached entry.
C21_ActiveVoicesCachedOnce ==
    [][(GetDataStep /\ "active_voices" \in DOMAIN analyses) =>
         /\ analyses'["active_voices"] = analyses["active_voices"]
         /\ (DefaultActiveVoices(call') /\ call'.err = "ok") =>
               /\ call'.res = analyses["active_voices"]
               /\ \A k \in DOMAIN call'.ran : call'.ran[k] # "ActiveVoicesIndexer"
      ]_vars

\* How many times the stage or indexer named ind ran in the call.
TimesRan(ran, ind) == Cardinality({k \in DOMAIN ran : ran[k] = ind})

\* The stages a dissonance request uses, by cache key, with the indexer each runs.
DissonanceStages ==
    [beat_strength |-> "NoteBeatStrengthIndexer", duration |-> "DurationIndexer",
     horizontal_interval |-> "HorizontalIntervalIndexer",
     vertical_interval |-> "IntervalIndexer", noterest |-> "NoteRestIndexer"]

\* A request, without data or settings, for the analyzer cached under key.
PlainRequestFor(c, key) ==
    /\ c.op = "get_data" /\ Rows(c.id) # {} /\ ShortName(c.id) = key
    /\ c.data = None /\ c.settings = None

\* C22: a dissonance request that succeeds runs each of the beat-strength,
\* duration, horizontal-interval, vertical-interval and note/rest indexers at
\* most once, and not at all when its table is cached; it leaves the five
\* tables and the dissonance table cached; when it runs the classifier, the
\* classifier receives, in this order, the cached beat-strength table, the
\* cached duration table, the horizontal intervals as reduced and attached
\* before in this call, and the vertical intervals as reduced in this call.
\* Once dissonance is cached, a request without settings for dissonance or for
\* any of the five stages runs nothing, returns the cached table and leaves
\* the cache as it was.
C22_DissonanceStagesOnce ==
    [][GetDataStep =>
         /\ (PlainRequestFor(call', "dissonance") /\ call'.err = "ok") =>
               /\ \A key \in DOMAIN DissonanceStages :
                     /\ TimesRan(call'.ran, DissonanceStages[key])
                           <= (IF key \in DOMAIN analyses THEN 0 ELSE 1)
                     /\ key \in DOMAIN analyses'
               /\ "dissonance" \in DOMAIN analyses' /\ call'.res = analyses'["dissonance"]
               /\ TimesRan(call'.ran, "DissonanceIndexer")
                     = (IF "dissonance" \in DOMAIN analyses THEN 0 ELSE 1)
               /\ "dissonance" \notin DOMAIN analyses =>
                     call'.res.inp = << Id(analyses'["beat_strength"]),
                                        Id(analyses'["duration"]),
                                        <<"_attach_before", runs'["_attach_before"]>>,
                                        <<"IntervalReindexer", runs'["IntervalReindexer"]>> >>
         /\ \A key \in DOMAIN DissonanceStages \cup {"dissonance"} :
               ("dissonance" \in DOMAIN analyses /\ PlainRequestFor(call', key)) =>
                     /\ call'.err = "ok" /\ call'.ran = << >>
                     /\ call'.res = analyses[key]
                     /\ analyses' = analyses
      ]_vars

\* C22's case: the duration table asked for after a dissonance request; it is
\* the table the classifier was given second.
C22_Witness ==
    /\ PlainRequestFor(call, "duration") /\ call.err = "ok"
    /\ "dissonance" \in DOMAIN analyses
    /\ analyses["dissonance"].inp[2] = Id(call.res)
    /\ ncalls = 2

-----------------------------------------------------------------------------
\* Further claims about the tables

\* The notes, rests and chords of a part as _get_m21_nrc_objs filters them.
NoteRestEvents(part) == DropNa(Apply(M21Objs(part), _type_func_noterest))

\* Whether _get_m21_nrc_objs hands the part to _combine_voices.
IsCombined(part) == ~IsUnique(Offsets(NoteRestEvents(part)))

\* Whether the pitch sounds in the Series at the offset.
SoundsAt(ser, off, pitch) ==
    \E r \in 1..Len(ser) :
        /\ ser[r].off = off
        /\ \E k \in 1..Len(ser[r].val.pitches) : ser[r].val.pitches[k] = pitch

\* C23 as stated: for every part handed to the voice combiner, the combiner
\* returns a Series in which every pitch of every note or chord of the part
\* sounds at that event's offset.
C23_EveryPitchKept ==
    probe.op = "m21_nrc_objs" =>
        \A i \in 1..Len(probe.parts) :
            IsCombined(probe.parts[i]) =>
                /\ "err" \notin DOMAIN NrcSeries(probe.parts[i])
                /\ \A e \in 1..Len(NoteRestEvents(probe.parts[i])) :
                      \A k \in 1..Len(NoteRestEvents(probe.parts[i])[e].val.pitches) :
                          SoundsAt(NrcSeries(probe.parts[i]).ser,
                                   NoteRestEvents(probe.parts[i])[e].off,
                                   NoteRestEvents(probe.parts[i])[e].val.pitches[k])

\* The notes, rests and chords the Voice containers of a part hold, voice after voice.
RECURSIVE VoiceEvents(_)
VoiceEvents(items) ==
    IF items = << >> THEN << >>
    ELSE (IF Head(items).cls = "Voice"
          THEN SelectSeq(Head(items).elems, LAMBDA e : e.cls \in _noterest_types)
          ELSE << >>) \o VoiceEvents(Tail(items))

\* The pitches the events sound at the offset, event after event.
RECURSIVE PitchesAt(_, _)
PitchesAt(events, off) ==
    IF events = << >> THEN << >>
    ELSE (IF Head(events).off = off THEN Head(events).pitches ELSE << >>)
         \o PitchesAt(Tail(events), off)

\* C24 as stated: for every part handed to the voice combiner, a part with no
\* Voice container comes back unchanged; otherwise the output has one event
\* at each offset where a voice has an event, and that event is the chord of
\* the pitches all voices sound at that offset, highest first, or a rest when
\* the voices sound no pitch there (so a rest beside a note leaves no trace).
C24_ChordPerOffset ==
    probe.op = "m21_nrc_objs" =>
        \A i \in 1..Len(probe.parts) :
            IsCombined(probe.parts[i]) =>
                IF \A k \in 1..Len(probe.parts[i].items) : probe.parts[i].items[k].cls # "Voice"
                THEN NrcSeries(probe.parts[i]) = [ser |-> NoteRestEvents(probe.parts[i])]
                ELSE /\ "err" \notin DOMAIN NrcSeries(probe.parts[i])
                     /\ Range(Offsets(NrcSeries(probe.parts[i]).ser))
                           = Range(Offsets(VoiceEvents(probe.parts[i].items)))
                     /\ IsUnique(Offsets(NrcSeries(probe.parts[i]).ser))
                     /\ \A r \in 1..Len(NrcSeries(probe.parts[i]).ser) :
                           NrcSeries(probe.parts[i]).ser[r].val
                              = _reinsert_rests(
                                   IF PitchesAt(VoiceEvents(probe.parts[i].items),
                                                NrcSeries(probe.parts[i]).ser[r].off) = << >>
                                   THEN NaN
                                   ELSE Chord(SortedDesc(
                                           PitchesAt(VoiceEvents(probe.parts[i].items),
                                                     NrcSeries(probe.parts[i]).ser[r].off))))

\* The rows after r where column p of the table has an event.
LaterEvents(table, p, r) == {q \in (r + 1)..Len(table.index) : table.cols[p][q] # NaN}

\* The offset where the event of row r, column p ends: that of the next event
\* of the part, or the part's highest time.
EndOf(table, parts, p, r) ==
    IF LaterEvents(table, p, r) = {} THEN parts[p].highestTime
    ELSE table.index[CHOOSE q \in LaterEvents(table, p, r) :
                        \A q2 \in LaterEvents(table, p, r) : q <= q2]

\* The sum of the durations in column p of the table, from row r on.
RECURSIVE SumFrom(_, _, _)
SumFrom(table, p, r) ==
    IF r > Len(table.index) THEN 0
    ELSE (IF table.cols[p][r] = NaN THEN 0 ELSE table.cols[p][r].val) + SumFrom(table, p, r + 1)

\* The rows where column p of the table has an event.
Events(table, p) == {r \in 1..Len(table.index) : table.cols[p][r] # NaN}

\* C25 as stated: the DurationIndexer returns a table; for an empty input it is
\* the empty input; otherwise it has the rows and columns of the input, a
\* cell missing in the input is missing in it, and the cell of an event holds
\* the offset of the part's next event, or for the last event the part's
\* highest time, minus the event's offset; every duration is positive and
\* those of a part sum to its highest time minus its first offset.
C25_DurationsOfEvents ==
    [][probe'.op = "duration" =>
         /\ "err" \notin DOMAIN probe'.table
         /\ Len(probe.table.index) = 0 => probe'.table = probe.table
         /\ Len(probe.table.index) > 0 =>
               /\ probe'.table.index = probe.table.index
               /\ Len(probe'.table.cols) = Len(probe.table.cols)
               /\ \A p \in 1..Len(probe.table.cols) :
                     /\ \A r \in 1..Len(probe.table.index) :
                           IF probe.table.cols[p][r] = NaN
                           THEN probe'.table.cols[p][r] = NaN
                           ELSE /\ probe'.table.cols[p][r]
                                      = Val(EndOf(probe.table, probe.parts, p, r)
                                            - probe.table.index[r])
                                /\ probe'.table.cols[p][r].val > 0
                     /\ Events(probe.table, p) # {} =>
                           SumFrom(probe'.table, p, 1)
                              = probe.parts[p].highestTime
                                - probe.table.index[CHOOSE r \in Events(probe.table, p) :
                                                       \A q \in Events(probe.table, p) : r <= q]
      ]_vars

\* C26: the table _get_m21_nrc_objs_no_tied computes holds no event with a tie
\* of a type other than 'start'; every event of the note/rest/chord table that
\* is untied or starts a tie is in it, in its part's column at its offset, and
\* it holds nothing else; none of its rows is missing in every part.
C26_OnlyUntiedOrTieStart ==
    [][probe'.op = "m21_nrc_objs_no_tied" =>
         /\ "err" \notin DOMAIN probe'.table
         /\ Len(probe'.table.cols) = Len(probe.table.cols)
         /\ \A p \in 1..Len(probe'.table.cols), r \in 1..Len(probe'.table.index) :
               probe'.table.cols[p][r] # NaN =>
                  /\ probe'.table.cols[p][r].tie \in {"None", "start"}
                  /\ \E q \in 1..Len(probe.table.index) :
                        /\ probe.table.index[q] = probe'.table.index[r]
                        /\ probe.table.cols[p][q] = probe'.table.cols[p][r]
         /\ \A p \in 1..Len(probe.table.cols), q \in 1..Len(probe.table.index) :
               (probe.table.cols[p][q] # NaN /\ probe.table.cols[p][q].tie \in {"None", "start"}) =>
                  \E r \in 1..Len(probe'.table.index) :
                     /\ probe'.table.index[r] = probe.table.index[q]
                     /\ probe'.table.cols[p][r] = probe.table.cols[p][q]
         /\ \A r \in 1..Len(probe'.table.index) :
               \E p \in 1..Len(probe'.table.cols) : probe'.table.cols[p][r] # NaN
      ]_vars

\* C26's case: a part with a note that ends a tie at offset 1, the only event
\* there; the table has lost that row and kept the tie's start.
C26_Witness ==
    /\ Produced("m21_nrc_objs_no_tied")
    /\ Len(probe.parts) = 1
    /\ \E k \in 1..Len(probe.parts[1].items) :
          /\ probe.parts[1].items[k].cls = "Note"
          /\ probe.parts[1].items[k].tie = "stop" /\ probe.parts[1].items[k].off = 1
    /\ probe.table.index = <<0, 2>>
    /\ probe.table.cols[1][1].tie = "start"

\* The values of the cells a Series holds, in order.
Values(ser) == [i \in 1..Len(ser) |-> ser[i].val]

\* C27 as stated: in the table _attach_before returns, each voice has the
\* intervals it had, in the same number, order and values, and each interval
\* is indexed at the offset of the first note of its pair.
C27_IndexedAtFirstNote ==
    [][(probe'.op = "_attach_before" /\ "err" \notin DOMAIN probe'.table) =>
         /\ Len(probe'.table.cols) = Len(probe.table.cols)
         /\ \A p \in 1..Len(probe.table.cols) :
               /\ Values(DropNa(Column(probe'.table, p))) = Values(DropNa(Column(probe.table, p)))
               /\ \A k \in 1..Len(DropNa(Column(probe'.table, p))) :
                     DropNa(Column(probe'.table, p))[k].off
                        = DropNa(Column(probe'.table, p))[k].val.val[1]
      ]_vars

-----------------------------------------------------------------------------
\* A further claim about the per-event transforms

\* C28 as stated: the tie transform returns '[', '_' and ']' for an event
\* whose tie is of type start, continue and stop, the missing marker for an
\* event with no tie, and the missing marker, raising nothing, for an event
\* whose tie is of any other type.
C28_TieSymbolOrMissing ==
    (probe.op = "tie_ind_func" /\ ~IsFloat(probe.event)) =>
        probe.out = CASE probe.event.tie = "start" -> Val("[")
                      [] probe.event.tie = "continue" -> Val("_")
                      [] probe.event.tie = "stop" -> Val("]")
                      [] OTHER -> NaN

-----------------------------------------------------------------------------
\* Further claims about the manager

\* A call of the manager's metadata() is the step being taken.
ManagerMetadataStep == wcall'.op = "metadata" /\ wcall'.n = wcall.n + 1

\* C29 as stated: metadata(index, field, value) on the manager with an index
\* from 0 to len-1 does to piece number index what the piece's own metadata()
\* does, and changes nothing else; with any other index, negative ones
\* included, it raises IndexError and changes nothing.
C29_OnlyThatPiece ==
    [][ManagerMetadataStep =>
         IF ValidIndex(wcall'.index)
         THEN /\ wm' = [wm EXCEPT !.data[wcall'.index.int + 1].md =
                           metadata_call(@, StrField(wcall'.field), wcall'.value).md]
              /\ wcall'.err = metadata_call(wm.data[wcall'.index.int + 1].md,
                                            StrField(wcall'.field), wcall'.value).err
              /\ wcall'.ret = Val(metadata_call(wm.data[wcall'.index.int + 1].md,
                                                StrField(wcall'.field), wcall'.value).ret)
         ELSE wcall'.err = "IndexError" /\ wm' = wm
      ]_vars

-----------------------------------------------------------------------------
\* Several pieces side by side: which dict each object holds

\* A constructor in which every object ends up holding the first dict made.
OwnDict_First(k) == CHOOSE a \in 1..k : \A b \in 1..k : a <= b

\* ``self._analyses = {}``, ``self._metadata = {}`` in IndexedPiece.__init__ and
\* ``{}`` in ``[{} for _ in xrange(len(self._data))]``: the dict the k-th
\* evaluation makes is a new one, cell k of the dicts of its kind.
OwnDict(k) == k

\* The pieces of ``WorkflowManager(vals)`` and their settings: which cell each
\* piece's cache, metadata and settings are (an_of, md_of, st_of) and what the
\* cells hold (an, md, st).
Pieces(vals) ==
    [op |-> "init", i |-> 0, n |-> 0, err |-> "ok",
     an_of |-> [k \in 1..__len__(WorkflowManager(vals)) |-> OwnDict(k)],
     md_of |-> [k \in 1..__len__(WorkflowManager(vals)) |-> OwnDict(k)],
     st_of |-> [k \in 1..__len__(WorkflowManager(vals)) |-> OwnDict(k)],
     an |-> [k \in 1..__len__(WorkflowManager(vals)) |-> WorkflowManager(vals).data[k].an],
     md |-> [k \in 1..__len__(WorkflowManager(vals)) |-> WorkflowManager(vals).data[k].md],
     st |-> WorkflowManager(vals).settings]

\* ``piece._analyses``, ``piece._metadata`` and ``self._settings[k - 1]`` as
\* piece k sees them in p.
CacheOf(p, k) == p.an[p.an_of[k]]

MetadataOf(p, k) == p.md[p.md_of[k]]

SettingsOf(p, k) == p.st[p.st_of[k]]

\* The identifiers asked of one of several pieces.
PieceRequests == {StrId("noterest"), StrId("duration"), StrId("vertical_interval")}

\* Every piece was constructed with a score of its own kind of content; the
\* variables of the single piece and of the manager are not used.
InitPieces ==
    /\ score = "notes" /\ imported = FALSE /\ analyses = [k \in {} |-> NoObj]
    /\ metadata = init_metadata /\ runs = [st \in Stages |-> 0]
    /\ call = NoCall /\ ncalls = 0
    /\ wm = NoManager /\ wcall = NoWCall
    /\ probe \in {Pieces(vals) : vals \in ValLists}

\* ``pieces[k - 1].get_data(analyzer_cls)``
PieceGetData(k, analyzer_cls) ==
    /\ probe.n < MaxCalls
    /\ probe' = [probe EXCEPT
           !.op = "get_data", !.i = k, !.n = @ + 1,
           !.err = get_data(PieceCtx([an |-> CacheOf(probe, k)]),
                            analyzer_cls, None, None).err,
           !.an[probe.an_of[k]] = get_data(PieceCtx([an |-> CacheOf(probe, k)]),
                                           analyzer_cls, None, None).c.an]
    /\ UNCHANGED <<score, imported, analyses, metadata, runs, call, ncalls, wm, wcall>>

\* ``pieces[k - 1].metadata(field, value)``
PieceMetadata(k, field, value) ==
    /\ probe.n < MaxCalls
    /\ probe' = [probe EXCEPT
           !.op = "metadata", !.i = k, !.n = @ + 1,
           !.err = metadata_call(MetadataOf(probe, k), StrField(field), value).err,
           !.md[probe.md_of[k]] = metadata_call(MetadataOf(probe, k),
                                                StrField(field), value).md]
    /\ UNCHANGED <<score, imported, analyses, metadata, runs, call, ncalls, wm, wcall>>

\* ``manager.settings(k - 1, field, value)``
PieceSettings(k, field, value) ==
    /\ probe.n < MaxCalls
    /\ probe' = [probe EXCEPT
           !.op = "settings", !.i = k, !.n = @ + 1,
           !.err = settings_at([settings |-> [j \in DOMAIN probe.st_of |->
                                                 SettingsOf(probe, j)]],
                               k - 1, field, value).err,
           !.st[probe.st_of[k]] =
               settings_at([settings |-> [j \in DOMAIN probe.st_of |->
                                             SettingsOf(probe, j)]],
                           k - 1, field, value).m.settings[k]]
    /\ UNCHANGED <<score, imported, analyses, metadata, runs, call, ncalls, wm, wcall>>

NextPieces ==
    \/ \E k \in DOMAIN probe.an_of, analyzer_cls \in PieceRequests :
          PieceGetData(k, analyzer_cls)
    \/ \E k \in DOMAIN probe.md_of, field \in {"title", "bogus"}, value \in ValueInputs :
          PieceMetadata(k, field, value)
    \/ \E k \in DOMAIN probe.st_of, field \in SettingsFields, value \in SettingsValues :
          PieceSettings(k, field, value)

SpecPieces == InitPieces /\ [][NextPieces]_vars

\* C30: a call of get_data or metadata on one piece leaves the cache and the
\* metadata of every other piece as they were, and setting a setting of one
\* piece in the manager leaves the settings of every other piece as they were.
C30_PiecesAreIndependent ==
    [][probe'.n = probe.n + 1 =>
         \A j \in DOMAIN probe.an_of \ {probe'.i} :
            /\ probe'.op \in {"get_data", "metadata"} =>
                  /\ CacheOf(probe', j) = CacheOf(probe, j)
                  /\ MetadataOf(probe', j) = MetadataOf(probe, j)
            /\ probe'.op = "settings" => SettingsOf(probe', j) = SettingsOf(probe, j)
      ]_vars

\* Of two pieces, one has answered get_data and cached the result, has been
\* given a title, and another piece has an empty cache and no such title.
C30_Witness ==
    /\ probe.op = "metadata" /\ probe.err = "ok" /\ probe.n > 1
    /\ \E k, j \in DOMAIN probe.an_of :
          /\ k # j
          /\ DOMAIN CacheOf(probe, k) # {} /\ DOMAIN CacheOf(probe, j) = {}
          /\ MetadataOf(probe, k)["title"] = "v1"
          /\ MetadataOf(probe, j)["title"] # "v1"

====
